---- MODULE Spec2Model ----
(***************************************************************************)
(* StepFly DAG execution engine: the ScheduleTool monitor loop, the        *)
(* executor worker processes it spawns, and the Memory data collection     *)
(* that carries Node_Status, Edge_Status and the workers' step results.    *)
(***************************************************************************)
EXTENDS Integers, Sequences, FiniteSets, TLC

VARIABLES
    data_collection,      \* Memory.data_collection: metadata.key -> data of its documents
    running_nodes,        \* ScheduleTool.running_nodes: insertion-ordered [executor_id, node_name]
    process,              \* executor_id -> [node_name, state]: the executor processes started;
                          \* state is "alive", "overdue" (alive for longer than
                          \* executor_timeout), "dead" or "released"
    plan_dag,             \* the PlanDAG file of the session
    running,              \* ScheduleTool.running
    pc,                   \* position of the monitoring thread
    all_node_status,      \* _monitoring_loop local
    all_edge_status,      \* _monitoring_loop local
    nodes_to_pop,         \* _monitoring_loop local
    nodes_to_run,         \* _monitoring_loop local: indices into all_node_status
    is_end_triggered,     \* _monitoring_loop local
    idx,                  \* position of the current for-loop of the monitoring thread
    max_executor_number,  \* config scheduler.max_executor_number
    executor_pc,          \* position of the executor process followed step by step
                          \* in Executor.execute_step ("idle": none is followed)
    max_iterations,       \* config executor.max_iterations
    current_inter,        \* execute_step local
    retry_count,          \* execute_step local
    json_data,            \* execute_step local: <<>> or <<the parsed response>>
    final_output,         \* what execute_step returns: empty, or a 1-tuple holding the result of the step
    conversation_history, \* BaseAgent.conversation_history: the audit log
    code_snippets,        \* Memory.code_snippets_collection: the ids stored
    interpreter_pc,       \* position in CodeInterpreter.execute ("idle": not called)
    max_attempts,         \* CodeInterpreter.max_attempts
    attempt,              \* local "attempt" of CodeInterpreter.execute and of
                          \* Scheduler._react_loop (whichever is running)
    last_error,           \* CodeInterpreter.execute local: <<>> is None
    previous_code,        \* CodeInterpreter.execute local: <<>> is None
    code,                 \* CodeInterpreter.execute local: <<>> is None
    code_args,            \* arguments of the latest generate_code call
    returned,             \* what CodeInterpreter.execute returned: empty, or a 1-tuple holding the text
    supervisor_pc,        \* position in Scheduler._react_loop ("idle": not started)
    step,                 \* loop variable of _react_loop
    calls                 \* call_llm calls made so far in the current step

vars == <<plan_dag, data_collection, running_nodes, process, running, pc,
          all_node_status, all_edge_status, nodes_to_pop, nodes_to_run,
          is_end_triggered, idx, max_executor_number,
          executor_pc, max_iterations, current_inter, retry_count, json_data,
          final_output, conversation_history, code_snippets,
          interpreter_pc, max_attempts, attempt, last_error, previous_code, code,
          code_args, returned, supervisor_pc, step, calls>>

interpreter_vars == <<interpreter_pc, max_attempts, last_error, previous_code, code,
                      code_args, returned>>

supervisor_vars == <<supervisor_pc, step, calls>>

agent_vars == <<interpreter_vars, supervisor_vars, attempt>>

executor_vars == <<executor_pc, max_iterations, current_inter, retry_count, json_data,
                   final_output, conversation_history, code_snippets>>

sched_locals == <<all_node_status, all_edge_status, nodes_to_pop, nodes_to_run,
                  is_end_triggered, idx>>

\* Largest configured scheduler.max_executor_number explored.
MaxExecutors == 2

\* Largest configured executor.max_iterations explored.
MaxIterations == 3

\* Largest number of documents stored under one metadata.key by add_data.
MaxRecords == 3

Range(s) == {s[i] : i \in DOMAIN s}

(***************************************************************************)
(* PlanDAG files.  Every edge has one source node and one target node.     *)
(***************************************************************************)
PlanNode(name, ins, outs) ==
    [node |-> name, input_edges |-> ins, output_edges |-> outs]

\* start -> A -> B -> end
ChainPlan ==
    << PlanNode("start", <<>>, <<"eS_A">>),
       PlanNode("A", <<"eS_A">>, <<"eA_B">>),
       PlanNode("B", <<"eA_B">>, <<"eB_E">>),
       PlanNode("end", <<"eB_E">>, <<>>) >>

\* start -> {A, B} -> end
ForkPlan ==
    << PlanNode("start", <<>>, <<"eS_A", "eS_B">>),
       PlanNode("A", <<"eS_A">>, <<"eA_E">>),
       PlanNode("B", <<"eS_B">>, <<"eB_E">>),
       PlanNode("end", <<"eA_E", "eB_E">>, <<>>) >>

\* start -> {A, B}, A -> B, B -> end: B joins two paths
JoinPlan ==
    << PlanNode("start", <<>>, <<"eS_A", "eS_B">>),
       PlanNode("A", <<"eS_A">>, <<"eA_B">>),
       PlanNode("B", <<"eS_B", "eA_B">>, <<"eB_E">>),
       PlanNode("end", <<"eB_E">>, <<>>) >>

Plans == {ChainPlan, ForkPlan, JoinPlan}

\* start -> end: the first worker is the one of the end node
DirectPlan ==
    << PlanNode("start", <<>>, <<"eS_E">>),
       PlanNode("end", <<"eS_E">>, <<>>) >>

\* The plans under which one worker is followed step by step.
FollowedPlans == {ChainPlan, DirectPlan}

\* start -> {A, B, C} -> end
WidePlan ==
    << PlanNode("start", <<>>, <<"eS_A", "eS_B", "eS_C">>),
       PlanNode("A", <<"eS_A">>, <<"eA_E">>),
       PlanNode("B", <<"eS_B">>, <<"eB_E">>),
       PlanNode("C", <<"eS_C">>, <<"eC_E">>),
       PlanNode("end", <<"eA_E", "eB_E", "eC_E">>, <<>>) >>

\* start -> A -> end
SinglePlan ==
    << PlanNode("start", <<>>, <<"eS_A">>),
       PlanNode("A", <<"eS_A">>, <<"eA_E">>),
       PlanNode("end", <<"eA_E">>, <<>>) >>

\* The linear chains with k = 0, 1, 2 steps.
LinearChains == {DirectPlan, SinglePlan, ChainPlan}

\* An edge name that no plan defines.
UnknownEdge == "eX_Y"

IsEndName(name) == name = "end"

\* node.get("node", "").lower() == "start", over the names the plans use.
IsStartName(name) == name \in {"start", "Start"}

\* A node of a PlanDAG file that carries the optional "status".
PlanNodeWithStatus(name, ins, outs, status) ==
    [node |-> name, input_edges |-> ins, output_edges |-> outs, status |-> status]

\* The plan files given to the loader alone: three nodes; the first is named
\* start, Start or (no start node) begin; edge lists with shared, repeated
\* and input-only names; the status of the second node present or absent.
LoaderPlans ==
    {plan \in
     {<< PlanNode(first, <<>>, start_outputs), second, PlanNode("end", end_inputs, <<>>) >> :
        first \in {"start", "Start", "begin"},
        start_outputs \in {<<>>, <<"e1">>, <<"e1", "e2">>},
        end_inputs \in {<<"e3">>, <<"e2", "e3", "e2">>},
        second \in {PlanNode("A", <<"e1">>, <<"e3">>),
                    PlanNode("A", <<"e4", "e1">>, <<"e3", "e1">>),
                    PlanNodeWithStatus("A", <<"e1">>, <<"e3">>, "finished"),
                    PlanNodeWithStatus("Start", <<"e1">>, <<"e3">>, "skipped")}} :
     Cardinality({i \in DOMAIN plan : IsStartName(plan[i].node)}) <= 1}

(***************************************************************************)
(* IncidentTSGLoader._load_plandag: Edge_Status and Node_Status as they    *)
(* are stored before the monitor loop starts.                              *)
(***************************************************************************)
RECURSIVE CollectEdges(_, _)
CollectEdges(names, acc) ==
    IF names = <<>> THEN acc
    ELSE CollectEdges(Tail(names),
                      IF \E i \in DOMAIN acc : acc[i].edge = Head(names)
                      THEN acc
                      ELSE Append(acc, [edge |-> Head(names), status |-> "pending"]))

\* Mutant: only the output edges of the nodes are collected.
PlanEdges_OutputsOnly(plan_dag_nodes, acc) ==
    LET outputs == [i \in DOMAIN plan_dag_nodes |-> plan_dag_nodes[i].output_edges]
        RECURSIVE Collect(_, _)
        Collect(i, sofar) == IF i > Len(outputs) THEN sofar
                             ELSE Collect(i + 1, CollectEdges(outputs[i], sofar))
    IN  Collect(1, acc)

RECURSIVE PlanEdges(_, _)
PlanEdges(plan_dag_nodes, acc) ==
    IF plan_dag_nodes = <<>> THEN acc
    ELSE PlanEdges(Tail(plan_dag_nodes),
                   CollectEdges(Head(plan_dag_nodes).output_edges
                                \o Head(plan_dag_nodes).input_edges, acc))

\* next(node for node in plan_dag_nodes if ... == "start", None): its position, 0 for None.
StartPosition(plan_dag_nodes) ==
    IF \E i \in DOMAIN plan_dag_nodes : IsStartName(plan_dag_nodes[i].node)
    THEN CHOOSE i \in DOMAIN plan_dag_nodes :
            /\ IsStartName(plan_dag_nodes[i].node)
            /\ \A j \in 1..(i - 1) : ~IsStartName(plan_dag_nodes[j].node)
    ELSE 0

LoadEdgeStatus(plan_dag_nodes) ==
    LET edge_status == PlanEdges(plan_dag_nodes, <<>>)
        start_node  == plan_dag_nodes[StartPosition(plan_dag_nodes)]
    IN  [i \in DOMAIN edge_status |->
            IF edge_status[i].edge \in Range(start_node.output_edges)
            THEN [edge_status[i] EXCEPT !.status = "enabled"]
            ELSE edge_status[i]]

\* start_node["status"] = "finished"; node.get("status", "pending") for the others.
LoadNodeStatus(plan_dag_nodes) ==
    [i \in DOMAIN plan_dag_nodes |->
        [node         |-> plan_dag_nodes[i].node,
         input_edges  |-> plan_dag_nodes[i].input_edges,
         output_edges |-> plan_dag_nodes[i].output_edges,
         status       |-> IF i = StartPosition(plan_dag_nodes) THEN "finished"
                          ELSE IF "status" \in DOMAIN plan_dag_nodes[i]
                          THEN plan_dag_nodes[i].status
                          ELSE "pending",
         result       |-> <<>>,
         executor_id  |-> <<>>]]

(***************************************************************************)
(* Memory.data_collection.  Every query the engine makes filters on        *)
(* metadata.key, so the collection is kept as key -> the data of the       *)
(* documents with that key, in insertion order.                            *)
(***************************************************************************)
\* Mutant: the worker stores its result under the key of the node list.
StepResultKey_NodeStatus(executor_id) == "Node_Status"

StepResultKey(executor_id) == ToString(executor_id) \o "_step_result"

HasKey(coll, key) == key \in DOMAIN coll

\* find_one({"metadata.key": key}): the first matching document, None as <<>>.
get_data_by_key(coll, key) ==
    IF HasKey(coll, key) THEN <<coll[key][1]>> ELSE <<>>

\* Mutant: delete_one, only the first matching document is removed.
delete_many_FirstOnly(coll, key) ==
    IF HasKey(coll, key) /\ Len(coll[key]) > 1
    THEN [coll EXCEPT ![key] = Tail(@)]
    ELSE [k \in DOMAIN coll \ {key} |-> coll[k]]

\* delete_many({"metadata.key": key})
delete_many(coll, key) == [k \in DOMAIN coll \ {key} |-> coll[k]]

\* add_data(..., metadata={"key": key}): insert_one
add_data(coll, key, data) ==
    IF HasKey(coll, key)
    THEN [coll EXCEPT ![key] = Append(@, data)]
    ELSE coll @@ (key :> << data >>)

\* Memory.update_data_by_key, run from its first statement to its return.
update_data_by_key(coll, key, data) ==
    LET existing_doc == get_data_by_key(coll, key)
    IN  IF existing_doc # <<>>
        THEN add_data(delete_many(coll, key), key, data)
        ELSE add_data(coll, key, data)

(***************************************************************************)
(* Verdicts.  A set_edge_status value is a Python dict (insertion-ordered  *)
(* <<edge, status>> items) or None.                                        *)
(***************************************************************************)
Dict(items) == [null |-> FALSE, items |-> items]
NoneMap     == [null |-> TRUE,  items |-> <<>>]

EdgeNames(edge_status) == {edge_status[i].edge : i \in DOMAIN edge_status}

\* The dicts an LLM may put in a finish_step whose status is "completed":
\* empty, one entry, or two.  The entry names an output edge of the step, with
\* a status or with "other" (any string that is not an edge status), or another
\* edge of the plan with a status, or an edge that does not exist (the status
\* written for it is never used); with two entries an output edge is enabled
\* and then an edge that does not exist is named.
CompletedMaps(output_edges, edge_status) ==
    {Dict(<<>>), Dict(<< <<UnknownEdge, "enabled">> >>)} \cup
    {Dict(<< <<e, v>> >>) : e \in EdgeNames(edge_status), v \in {"enabled", "disabled"}} \cup
    {Dict(<< <<e, "other">> >>) : e \in Range(output_edges)} \cup
    {Dict(<< <<e, "enabled">>, <<UnknownEdge, "enabled">> >>) : e \in Range(output_edges)}

\* With any other status the scheduler never reads the dict; the cases kept
\* are the empty dict and an entry that asks for an output edge to be enabled.
FailedMaps(output_edges) ==
    {Dict(<<>>)} \cup {Dict(<< <<e, "enabled">> >>) : e \in Range(output_edges)}

\* Executor.execute_step: the final_output values it can return for a step.
\* The free text of "result" is left out.
ExecuteStepResults(node, edge_status) ==
    IF IsEndName(node.node)
    THEN {[status |-> "completed", set_edge_status |-> Dict(<<>>)]}
    ELSE \* finish_step chosen by the LLM ("set_edge_status": null included)
         {[status |-> "completed", set_edge_status |-> m] :
             m \in CompletedMaps(node.output_edges, edge_status) \cup {NoneMap}}
         \cup
         \* finish_step with status failed, or JSON decoding failed max_retry_number times
         {[status |-> "failed", set_edge_status |-> m] : m \in FailedMaps(node.output_edges)}
         \cup
         \* iterations exhausted without finish_step
         {[status |-> "failed", set_edge_status |-> NoneMap]}

\* The synthetic result of the timeout path; it has no set_edge_status key,
\* so .get("set_edge_status", {}) yields the empty dict.
TimeoutResult ==
    [status |-> "failed", error |-> "Executor timed out", set_edge_status |-> Dict(<<>>)]

ExecutorResult(node_name, executor_id, result) ==
    [node_name |-> node_name, executor_id |-> executor_id, result |-> result]

(***************************************************************************)
(* Module-level helpers of schedule_tool.py.                               *)
(***************************************************************************)
\* Mutant: the edges are left as they are.
_set_all_output_edges_disabled_NoOp(node, edge_status) == edge_status

\* Mutant: the input edges of the node are disabled instead of its output edges.
_set_all_output_edges_disabled_Inputs(node, edge_status) ==
    [i \in DOMAIN edge_status |->
        IF edge_status[i].edge \in Range(node.input_edges)
        THEN [edge_status[i] EXCEPT !.status = "disabled"]
        ELSE edge_status[i]]

_set_all_output_edges_disabled(node, edge_status) ==
    [i \in DOMAIN edge_status |->
        IF edge_status[i].edge \in Range(node.output_edges)
        THEN [edge_status[i] EXCEPT !.status = "disabled"]
        ELSE edge_status[i]]

\* Mutant: one disabled input edge is enough.
_are_all_input_edges_disabled_Any(node, edge_status) ==
    \E i \in DOMAIN edge_status :
        /\ edge_status[i].edge \in Range(node.input_edges)
        /\ edge_status[i].status = "disabled"

_are_all_input_edges_disabled(node, edge_status) ==
    \A i \in DOMAIN edge_status :
        edge_status[i].edge \in Range(node.input_edges)
            => edge_status[i].status = "disabled"

\* Mutant: a node is triggered as soon as no input edge is pending.
_should_trigger_node_NoEnabledNeeded(node, edge_status) ==
    LET any_pending == \E i \in DOMAIN edge_status :
                          /\ edge_status[i].edge \in Range(node.input_edges)
                          /\ edge_status[i].status = "pending"
    IN  <<~any_pending, IsEndName(node.node)>>

\* Mutant: a node other than end is triggered only when every input edge is enabled.
_should_trigger_node_AllEnabled(node, edge_status) ==
    LET any_enabled == \E i \in DOMAIN edge_status :
                          /\ edge_status[i].edge \in Range(node.input_edges)
                          /\ edge_status[i].status = "enabled"
        all_enabled == \A i \in DOMAIN edge_status :
                          edge_status[i].edge \in Range(node.input_edges)
                              => edge_status[i].status = "enabled"
        is_end_node == IsEndName(node.node)
    IN  IF is_end_node /\ any_enabled THEN <<TRUE, TRUE>>
        ELSE IF all_enabled /\ any_enabled THEN <<TRUE, FALSE>>
        ELSE <<FALSE, FALSE>>

\* Returns <<is_triggering, is_end_node>>.
_should_trigger_node(node, edge_status) ==
    LET any_pending == \E i \in DOMAIN edge_status :
                          /\ edge_status[i].edge \in Range(node.input_edges)
                          /\ edge_status[i].status = "pending"
        any_enabled == \E i \in DOMAIN edge_status :
                          /\ edge_status[i].edge \in Range(node.input_edges)
                          /\ edge_status[i].status = "enabled"
        is_end_node == IsEndName(node.node)
    IN  IF is_end_node /\ any_enabled THEN <<TRUE, TRUE>>
        ELSE IF ~any_pending /\ any_enabled THEN <<TRUE, FALSE>>
        ELSE <<FALSE, FALSE>>

\* Returns [edges, raised]: the list as mutated so far and whether ValueError
\* was raised for an edge that is not in the list.
RECURSIVE UpdateItems(_, _)
UpdateItems(all_edges, items) ==
    IF items = <<>> THEN [edges |-> all_edges, raised |-> FALSE]
    ELSE LET edge_name  == Head(items)[1]
             new_status == Head(items)[2]
         IN  IF \E i \in DOMAIN all_edges : all_edges[i].edge = edge_name
             THEN UpdateItems([i \in DOMAIN all_edges |->
                                  IF all_edges[i].edge = edge_name
                                  THEN [all_edges[i] EXCEPT !.status = new_status]
                                  ELSE all_edges[i]],
                              Tail(items))
             ELSE [edges |-> all_edges, raised |-> TRUE]

\* Mutant: the edges the dict does not name are disabled.
_update_output_edges_DisablesRest(all_edges, set_edge_status) ==
    IF set_edge_status.null THEN [edges |-> all_edges, raised |-> TRUE]
    ELSE LET updated == UpdateItems(all_edges, set_edge_status.items)
         IN  [edges |-> [i \in DOMAIN updated.edges |->
                            IF \E k \in DOMAIN set_edge_status.items :
                                  set_edge_status.items[k][1] = updated.edges[i].edge
                            THEN updated.edges[i]
                            ELSE [updated.edges[i] EXCEPT !.status = "disabled"]],
              raised |-> updated.raised]

\* Mutant: the dict is read but no edge is changed.
_update_output_edges_Ignored(all_edges, set_edge_status) ==
    [edges |-> all_edges, raised |-> set_edge_status.null]

\* set_edge_status.items() on None raises AttributeError before any edge changes.
_update_output_edges(all_edges, set_edge_status) ==
    IF set_edge_status.null THEN [edges |-> all_edges, raised |-> TRUE]
    ELSE UpdateItems(all_edges, set_edge_status.items)

\* Mutant: only pending nodes count as unfinished.
_is_execution_complete_IgnoresRunning(node_status, edge_status) ==
    \/ \E i \in DOMAIN node_status :
          IsEndName(node_status[i].node) /\ node_status[i].status = "finished"
    \/ /\ ~\E i \in DOMAIN edge_status : edge_status[i].status = "pending"
       /\ ~\E i \in DOMAIN node_status : node_status[i].status = "pending"

_is_execution_complete(node_status, edge_status) ==
    \/ \E i \in DOMAIN node_status :
          IsEndName(node_status[i].node) /\ node_status[i].status = "finished"
    \/ /\ ~\E i \in DOMAIN edge_status : edge_status[i].status = "pending"
       /\ ~\E i \in DOMAIN node_status : node_status[i].status \in {"pending", "running"}

(***************************************************************************)
(* Initial state: the PlanDAG has been loaded and ScheduleTool.execute has *)
(* set running and started the monitoring thread.                          *)
(***************************************************************************)
SchedulerInit ==
    /\ data_collection = add_data(add_data(<<>>, "Edge_Status", LoadEdgeStatus(plan_dag)),
                                "Node_Status", LoadNodeStatus(plan_dag))
    /\ running_nodes = <<>>
    /\ process = <<>>
    /\ running = TRUE
    /\ pc = "fetch"
    /\ all_node_status = <<>>
    /\ all_edge_status = <<>>
    /\ nodes_to_pop = <<>>
    /\ nodes_to_run = <<>>
    /\ is_end_triggered = FALSE
    /\ idx = 1

\* No CodeInterpreter.execute call and no supervisor loop is under way.
AgentsIdle ==
    /\ interpreter_pc = "idle"
    /\ max_attempts = 3
    /\ attempt = 0
    /\ last_error = <<>>
    /\ previous_code = <<>>
    /\ code = <<>>
    /\ code_args = <<>>
    /\ returned = <<>>
    /\ supervisor_pc = "idle"
    /\ step = 0
    /\ calls = 0

\* The locals of an execute_step that has not begun.
ExecutorInit ==
    /\ current_inter = 1
    /\ retry_count = 0
    /\ json_data = <<>>
    /\ final_output = <<>>
    /\ conversation_history = <<>>
    /\ code_snippets = {}

\* Every executor is taken as a whole (ExecuteStepResults): none is followed.
Init ==
    /\ plan_dag \in Plans
    /\ max_executor_number \in 1..MaxExecutors
    /\ SchedulerInit
    /\ executor_pc = "idle"
    /\ max_iterations = MaxIterations
    /\ ExecutorInit
    /\ AgentsIdle

(***************************************************************************)
(* ScheduleTool._monitoring_loop, one action per step of a cycle.          *)
(***************************************************************************)
\* Top of the while loop: fetch Edge_Status and Node_Status from memory.
Fetch ==
    /\ pc = "fetch"
    /\ running
    /\ all_edge_status' = get_data_by_key(data_collection, "Edge_Status")[1]
    /\ all_node_status' = get_data_by_key(data_collection, "Node_Status")[1]
    /\ nodes_to_pop' = <<>>
    /\ idx' = 1
    /\ pc' = "reap"
    /\ UNCHANGED <<plan_dag, data_collection, running_nodes, process, running,
                   nodes_to_run, is_end_triggered, max_executor_number, agent_vars, executor_vars>>

\* Mutant: the result is recorded and the status is left as it was.
RecordResult_KeepsStatus(node_status_list, node_name, node_status, result) ==
    [i \in DOMAIN node_status_list |->
        IF node_status_list[i].node = node_name
        THEN [node_status_list[i] EXCEPT !.result = << result >>]
        ELSE node_status_list[i]]

\* The node list after the result of node_name has been recorded.
RecordResult(node_status_list, node_name, node_status, result) ==
    [i \in DOMAIN node_status_list |->
        IF node_status_list[i].node = node_name
        THEN [node_status_list[i] EXCEPT !.status = node_status, !.result = << result >>]
        ELSE node_status_list[i]]

NodeNamed(node_status_list, node_name) ==
    node_status_list[CHOOSE i \in DOMAIN node_status_list :
                        node_status_list[i].node = node_name]

\* Mutant: the status of the verdict is not looked at.
NodeStatusFor_AlwaysFinished(result) == "finished"

\* "finished" if executor_result["result"]["status"] == "completed" else "failed"
NodeStatusFor(result) == IF result.status = "completed" THEN "finished" ELSE "failed"

\* Mutant: the timeout is never enforced.
IsTimeout_Never(process_state) == FALSE

\* is_timeout: the process is alive and started more than executor_timeout ago.
IsTimeout(process_state) == process_state = "overdue"

\* One iteration of "for executor_id in self.running_nodes".
ReapExecutor ==
    /\ pc = "reap"
    /\ idx <= Len(running_nodes)
    /\ LET executor_id == running_nodes[idx].executor_id
           process_status == process[executor_id].state \in {"alive", "overdue"}
           is_timeout == process_status /\ IsTimeout(process[executor_id].state)
           executor_result ==
               IF is_timeout
               THEN <<ExecutorResult(running_nodes[idx].node_name, executor_id, TimeoutResult)>>
               ELSE get_data_by_key(data_collection, StepResultKey(executor_id))
       IN  /\ process' = IF is_timeout
                         THEN [process EXCEPT ![executor_id].state = "dead"]
                         ELSE process
           /\ IF Len(executor_result) = 0
              THEN /\ idx' = idx + 1
                   /\ UNCHANGED <<all_node_status, all_edge_status, nodes_to_pop, pc>>
              ELSE LET node_name == executor_result[1].node_name
                       result == executor_result[1].result
                       node_status == NodeStatusFor(result)
                       updated == _update_output_edges(all_edge_status,
                                                       result.set_edge_status)
                   IN  /\ all_node_status' =
                              RecordResult(all_node_status, node_name, node_status, result)
                       /\ IF node_status = "finished"
                          THEN /\ all_edge_status' = updated.edges
                               /\ IF updated.raised
                                  THEN /\ pc' = "crashed"
                                       /\ UNCHANGED <<nodes_to_pop, idx>>
                                  ELSE /\ nodes_to_pop' = Append(nodes_to_pop, executor_id)
                                       /\ idx' = idx + 1
                                       /\ pc' = pc
                          ELSE /\ all_edge_status' =
                                      _set_all_output_edges_disabled(
                                          NodeNamed(all_node_status, node_name),
                                          all_edge_status)
                               /\ nodes_to_pop' = Append(nodes_to_pop, executor_id)
                               /\ idx' = idx + 1
                               /\ pc' = pc
    /\ UNCHANGED <<plan_dag, data_collection, running_nodes, running,
                   nodes_to_run, is_end_triggered, max_executor_number, agent_vars, executor_vars>>

\* "for executor_id in nodes_to_pop: del self.running_nodes[executor_id]".
\* The entry held the only reference to the Process object: from here on the
\* process is "released" and no longer followed (its result is stored or it
\* has been terminated, so all it can still do is exit).
PopReaped ==
    /\ pc = "reap"
    /\ idx > Len(running_nodes)
    /\ running_nodes' = SelectSeq(running_nodes,
                                  LAMBDA rn : rn.executor_id \notin Range(nodes_to_pop))
    /\ nodes_to_run' = <<>>
    /\ is_end_triggered' = FALSE
    /\ idx' = 1
    /\ process' = [id \in DOMAIN process |->
                      IF id \in Range(nodes_to_pop)
                      THEN [process[id] EXCEPT !.state = "released"]
                      ELSE process[id]]
    /\ pc' = "sweep"
    /\ UNCHANGED <<plan_dag, data_collection, running,
                   all_node_status, all_edge_status, nodes_to_pop, max_executor_number, agent_vars, executor_vars>>

\* Mutant: the sweep passes over running nodes only.
IsCandidate_AnyNotRunning(node) == node.status # "running"

\* Mutant: a failed node is a candidate again.
IsCandidate_OrFailed(node) == node.status \in {"pending", "failed"}

\* "if node["status"] != "pending": continue"
IsCandidate(node) == node.status = "pending"

\* Mutant: the comparison is off by one.
HasFreeSlot_OffByOne(tracked, selected, cap) == Len(tracked) + Len(selected) <= cap

\* "len(self.running_nodes) + len(nodes_to_run) < max_executor_number"
HasFreeSlot(tracked, selected, cap) == Len(tracked) + Len(selected) < cap

\* One iteration of "for node in all_node_status".
SweepNode ==
    /\ pc = "sweep"
    /\ idx <= Len(all_node_status)
    /\ LET node == all_node_status[idx]
           trigger == _should_trigger_node(node, all_edge_status)
           is_triggering == trigger[1]
           is_end_node == trigger[2]
       IN  IF ~IsCandidate(node)
           THEN UNCHANGED <<all_node_status, all_edge_status, nodes_to_run, is_end_triggered>>
           ELSE IF is_triggering /\
                   (is_end_node \/
                    HasFreeSlot(running_nodes, nodes_to_run, max_executor_number))
           THEN /\ nodes_to_run' = Append(nodes_to_run, idx)
                /\ is_end_triggered' = (is_end_triggered \/ is_end_node)
                /\ UNCHANGED <<all_node_status, all_edge_status>>
           ELSE IF _are_all_input_edges_disabled(node, all_edge_status)
           THEN /\ all_node_status' = [all_node_status EXCEPT ![idx].status = "skipped"]
                /\ all_edge_status' = _set_all_output_edges_disabled(node, all_edge_status)
                /\ UNCHANGED <<nodes_to_run, is_end_triggered>>
           ELSE UNCHANGED <<all_node_status, all_edge_status, nodes_to_run, is_end_triggered>>
    /\ idx' = idx + 1
    /\ UNCHANGED <<plan_dag, data_collection, running_nodes, process, running,
                   pc, nodes_to_pop, max_executor_number, agent_vars, executor_vars>>

\* Mutant: the dispatch loop skips nothing.
Launched_All == nodes_to_run

\* The nodes of nodes_to_run that the dispatch loop does not skip.
Launched ==
    SelectSeq(nodes_to_run,
              LAMBDA i : ~(is_end_triggered /\ ~IsEndName(all_node_status[i].node)))

\* "for node in nodes_to_run": assign executor ids and start the processes.
Dispatch ==
    /\ pc = "sweep"
    /\ idx > Len(all_node_status)
    /\ LET launch == Launched
           new_id(k) == Len(process) + k
           position(i) == CHOOSE k \in DOMAIN launch : launch[k] = i
       IN  /\ all_node_status' =
                  [i \in DOMAIN all_node_status |->
                      IF i \in Range(launch)
                      THEN [all_node_status[i] EXCEPT
                                !.status = "running",
                                !.executor_id = <<new_id(position(i))>>]
                      ELSE all_node_status[i]]
           /\ process' = process \o
                  [k \in DOMAIN launch |->
                      [node_name |-> all_node_status[launch[k]].node, state |-> "alive"]]
           /\ running_nodes' = running_nodes \o
                  [k \in DOMAIN launch |->
                      [executor_id |-> new_id(k),
                       node_name |-> all_node_status[launch[k]].node]]
    /\ pc' = "update_nodes"
    /\ UNCHANGED <<plan_dag, data_collection, running, all_edge_status,
                   nodes_to_pop, nodes_to_run, is_end_triggered, idx, max_executor_number, agent_vars, executor_vars>>

\* Memory.update_data_by_key, first half: find_one, then delete_many.
UpdateDelete(at, key, then) ==
    /\ pc = at
    /\ data_collection' = delete_many(data_collection, key)
    /\ pc' = then
    /\ UNCHANGED <<plan_dag, running_nodes, process, running, sched_locals,
                   max_executor_number, agent_vars, executor_vars>>

\* Memory.update_data_by_key, second half: add_data with the same key.
UpdateAdd(at, key, data, then) ==
    /\ pc = at
    /\ data_collection' = add_data(data_collection, key, data)
    /\ pc' = then
    /\ UNCHANGED <<plan_dag, running_nodes, process, running, sched_locals,
                   max_executor_number, agent_vars, executor_vars>>

PersistNodesDelete == UpdateDelete("update_nodes", "Node_Status", "add_nodes")
PersistNodesAdd    == UpdateAdd("add_nodes", "Node_Status", all_node_status, "update_edges")
PersistEdgesDelete == UpdateDelete("update_edges", "Edge_Status", "add_edges")
PersistEdgesAdd    == UpdateAdd("add_edges", "Edge_Status", all_edge_status, "check")

\* "if _is_execution_complete(...): self.running = False; break", else sleep.
CheckComplete ==
    /\ pc = "check"
    /\ IF _is_execution_complete(all_node_status, all_edge_status)
       THEN running' = FALSE /\ pc' = "cleanup"
       ELSE running' = running /\ pc' = "fetch"
    /\ UNCHANGED <<plan_dag, data_collection, running_nodes, process,
                   sched_locals, max_executor_number, agent_vars, executor_vars>>

\* After the loop: terminate the executors that are still tracked and alive.
CleanUp ==
    /\ pc = "cleanup"
    /\ process' = [id \in DOMAIN process |->
                      IF \E i \in DOMAIN running_nodes : running_nodes[i].executor_id = id
                      THEN [process[id] EXCEPT !.state = "dead"]
                      ELSE process[id]]
    /\ pc' = "ended"
    /\ UNCHANGED <<plan_dag, data_collection, running_nodes, running,
                   sched_locals, max_executor_number, agent_vars, executor_vars>>

(***************************************************************************)
(* Executor processes (_run_executor).                                     *)
(***************************************************************************)
IsAlive(executor_id) == process[executor_id].state \in {"alive", "overdue"}

PlanNodeNamed(node_name) ==
    CHOOSE n \in Range(plan_dag) : n.node = node_name

\* execute_step returned and the result is stored with add_data.
ExecutorStoreResult(executor_id) ==
    /\ IsAlive(executor_id)
    /\ ~HasKey(data_collection, StepResultKey(executor_id))
    /\ \E step_result \in ExecuteStepResults(PlanNodeNamed(process[executor_id].node_name),
                                             LoadEdgeStatus(plan_dag)) :
          data_collection' =
              add_data(data_collection, StepResultKey(executor_id),
                       ExecutorResult(process[executor_id].node_name, executor_id,
                                      step_result))
    /\ UNCHANGED <<plan_dag, running_nodes, process, running, pc, sched_locals,
                   max_executor_number, agent_vars, executor_vars>>

\* _run_executor returns and the process ends.
ExecutorExit(executor_id) ==
    /\ IsAlive(executor_id)
    /\ HasKey(data_collection, StepResultKey(executor_id))
    /\ process' = [process EXCEPT ![executor_id].state = "dead"]
    /\ UNCHANGED <<plan_dag, data_collection, running_nodes, running, pc,
                   sched_locals, max_executor_number, agent_vars, executor_vars>>

\* The process dies before it stores a result (Executor.__init__ raises in
\* _preload_plugins_for_executor, or the process is killed).
ExecutorDie(executor_id) ==
    /\ IsAlive(executor_id)
    /\ ~HasKey(data_collection, StepResultKey(executor_id))
    /\ process' = [process EXCEPT ![executor_id].state = "dead"]
    /\ UNCHANGED <<plan_dag, data_collection, running_nodes, running, pc,
                   sched_locals, max_executor_number, agent_vars, executor_vars>>

\* More than executor_timeout seconds have passed since start_time.
TimeoutElapses(executor_id) ==
    /\ process[executor_id].state = "alive"
    /\ process' = [process EXCEPT ![executor_id].state = "overdue"]
    /\ UNCHANGED <<plan_dag, data_collection, running_nodes, running, pc,
                   sched_locals, max_executor_number, agent_vars, executor_vars>>

MonitorStep ==
    \/ Fetch
    \/ ReapExecutor
    \/ PopReaped
    \/ SweepNode
    \/ Dispatch
    \/ PersistNodesDelete
    \/ PersistNodesAdd
    \/ PersistEdgesDelete
    \/ PersistEdgesAdd
    \/ CheckComplete
    \/ CleanUp

ExecutorStep ==
    \/ \E executor_id \in DOMAIN process : ExecutorStoreResult(executor_id)
    \/ \E executor_id \in DOMAIN process : ExecutorExit(executor_id)
    \/ \E executor_id \in DOMAIN process : ExecutorDie(executor_id)
    \/ \E executor_id \in DOMAIN process : TimeoutElapses(executor_id)

Next == MonitorStep \/ ExecutorStep

Spec == Init /\ [][Next]_vars

\* The monitoring thread keeps running its loop, and the clock keeps
\* advancing: a process that stays alive becomes older than executor_timeout.
FairSpec ==
    /\ Init
    /\ [][Next]_vars
    /\ WF_vars(MonitorStep)
    /\ WF_vars(\E executor_id \in DOMAIN process : TimeoutElapses(executor_id))

(***************************************************************************)
(* Executor.execute_step followed step by step, for the executor that the  *)
(* scheduler dispatches first.  Strings that the code takes apart (tool    *)
(* names, observations) are sequences of tokens.                           *)
(***************************************************************************)
\* "3,  # Max retry number for executor" in the dispatch of _run_executor.
max_retry_number == 3

\* The executor_id of the first executor dispatched (ids are given in order).
FollowedId == Len(<<"first">>)

FollowedNode == PlanNodeNamed(process[FollowedId].node_name)

\* str.lower() on the tokens used.
LowerToken(token) == IF token = "Plugin_" THEN "plugin_" ELSE token

Lower(text) == [i \in DOMAIN text |-> LowerToken(text[i])]

\* str.startswith(prefix), the prefix being one token.
StartsWith(text, prefix) == Len(text) > 0 /\ text[1] = prefix

SnippetMarker == "SQL query snippet stored with ID: "

\* text.split(marker)[-1]: what follows the last marker, the whole text if none.
SplitLast(text, marker) ==
    LET at == {i \in DOMAIN text : text[i] = marker}
    IN  IF at = {} THEN text
        ELSE SubSeq(text, (CHOOSE i \in at : \A j \in at : j <= i) + 1, Len(text))

\* self.tools: the built-in tools and the pre-loaded plugin tool.
Tools == {<<"plugin_", "3_tool">>, <<"sql_query_tool">>, <<"memory_tool">>,
          <<"finish_step">>}

FinishStep(status, set_edge_status) ==
    [action |-> <<"finish_step">>,
     parameters |-> [status |-> status, set_edge_status |-> set_edge_status]]

\* A tool call: kwargs are the names of the parameters the LLM supplied.
ToolCall(action, kwargs) == [action |-> action, parameters |-> [kwargs |-> kwargs]]

\* required_params of plugin_3, in the order its execute checks them.
required_params == <<"start_time", "end_time", "region", "environment", "service_name">>

\* The parameter sets an LLM response gives the plugin tool.
PluginKwargs ==
    {Range(required_params), Range(required_params) \ {"region"}, {}}

\* Mutant: the synthesized finish_step reports the step as completed.
DecodeFailedFinishStep_Completed == FinishStep("completed", Dict(<<>>))

\* json_data after max_retry_number responses that json.loads rejects.
DecodeFailedFinishStep == FinishStep("failed", Dict(<<>>))

\* What call_llm can return for a step: <<>> is a response that is not JSON.
LLMResponses(node) ==
    {<<>>}
    \cup {<<FinishStep("completed", Dict(<< <<e, "enabled">> >>))>> :
             e \in Range(node.output_edges)}
    \cup {<<ToolCall(<<"memory_tool">>, kwargs)>> : kwargs \in {{}, {"action"}}}
    \cup {<<ToolCall(<<"web_search">>, {})>>}
    \cup {<<ToolCall(<<head, "3_tool">>, kwargs)>> :
             head \in {"plugin_", "Plugin_"}, kwargs \in PluginKwargs}

\* DistributedSystemLowAvailabilityPlugin3.execute: the message for the first
\* required parameter that is missing, else the formatted query.
PluginExecute(kwargs) ==
    LET missing == {i \in DOMAIN required_params : required_params[i] \notin kwargs}
    IN  IF missing # {}
        THEN <<"Missing required parameter: ",
               required_params[CHOOSE i \in missing : \A j \in missing : i <= j]>>
        ELSE <<"SELECT ">>

\* Mutant: the snippet is stored before it is looked at.
PluginToolExecute_StoreFirst(parameters, snippets) ==
    LET snippet == PluginExecute(parameters.kwargs)
        snippet_id == <<ToString(Cardinality(snippets) + 1)>>
    IN  IF StartsWith(snippet, "Error:") \/ StartsWith(snippet, "Missing required parameter: ")
        THEN [observation |-> snippet, snippets |-> snippets \cup {snippet_id},
              raised |-> FALSE]
        ELSE [observation |-> << SnippetMarker >> \o snippet_id,
              snippets |-> snippets \cup {snippet_id}, raised |-> FALSE]

\* PluginTool.execute: [observation, snippets]; store_code_snippet gives a new id.
PluginToolExecute(parameters, snippets) ==
    LET snippet == PluginExecute(parameters.kwargs)
        snippet_id == <<ToString(Cardinality(snippets) + 1)>>
    IN  IF StartsWith(snippet, "Error:") \/ StartsWith(snippet, "Missing required parameter: ")
        THEN [observation |-> snippet, snippets |-> snippets, raised |-> FALSE]
        ELSE [observation |-> << SnippetMarker >> \o snippet_id,
              snippets |-> snippets \cup {snippet_id}, raised |-> FALSE]

\* tool.execute(**parameters): [observation, snippets, raised].  When raised,
\* observation is str(e) of the exception.  MemoryTool.execute(action, **kwargs)
\* called without "action" raises TypeError.
ExecuteTool(tool, parameters, snippets) ==
    IF StartsWith(tool, "plugin_")
    THEN PluginToolExecute(parameters, snippets)
    ELSE IF tool = <<"sql_query_tool">>
    THEN IF parameters.snippet_id \in snippets
         THEN [observation |-> <<"SQL result of ">> \o parameters.snippet_id,
               snippets |-> snippets, raised |-> FALSE]
         ELSE [observation |-> <<"Error: SQL snippet with ID not found: ">>
                                   \o parameters.snippet_id,
               snippets |-> snippets, raised |-> FALSE]
    ELSE IF tool = <<"memory_tool">> /\ "action" \notin parameters.kwargs
    THEN [observation |-> <<"missing 1 required positional argument: 'action'">>,
          snippets |-> snippets, raised |-> TRUE]
    ELSE [observation |-> <<"ok">>, snippets |-> snippets, raised |-> FALSE]

\* Mutant: tool.execute is called outside try/except.
_execute_action_NoTry(action, parameters, snippets) ==
    LET found == IF action \in Tools THEN {action}
                 ELSE {t \in Tools : Lower(t) = Lower(action)}
    IN  IF found = {}
        THEN [observation |-> <<"Error: Tool not found: ">> \o action,
              snippets |-> snippets, raised |-> FALSE]
        ELSE ExecuteTool(CHOOSE t \in found : TRUE, parameters, snippets)

\* Executor._execute_action: exact lookup, then the case-insensitive search;
\* an exception of tool.execute becomes the text "Error executing ...".
_execute_action(action, parameters, snippets) ==
    LET found == IF action \in Tools THEN {action}
                 ELSE {t \in Tools : Lower(t) = Lower(action)}
    IN  IF found = {}
        THEN [observation |-> <<"Error: Tool not found: ">> \o action,
              snippets |-> snippets, raised |-> FALSE]
        ELSE LET result == ExecuteTool(CHOOSE t \in found : TRUE, parameters, snippets)
             IN  IF result.raised
                 THEN [observation |-> <<"Error executing ">> \o action
                                           \o result.observation,
                       snippets |-> result.snippets, raised |-> FALSE]
                 ELSE result

AssistantMessage(data) == [role |-> "assistant", content |-> data]

ObservationMessage(observation) == [role |-> "user", content |-> observation]

FollowedRuns == FollowedId \in DOMAIN process /\ IsAlive(FollowedId)

\* execute_step up to the while loop: the system and the user message.
ExecutorBegin ==
    /\ executor_pc = "new"
    /\ FollowedRuns
    /\ conversation_history' = <<[role |-> "system", content |-> <<"prompt">>],
                                 [role |-> "user", content |-> <<"step">>]>>
    /\ current_inter' = 1
    /\ executor_pc' = "while"
    /\ UNCHANGED <<plan_dag, data_collection, running_nodes, process, running, pc,
                   sched_locals, max_executor_number, agent_vars, max_iterations, retry_count,
                   json_data, final_output, code_snippets>>

\* "while current_inter < max_iterations" holds: a turn begins.
ExecutorTurn ==
    /\ executor_pc = "while"
    /\ FollowedRuns
    /\ current_inter < max_iterations
    /\ IF IsEndName(FollowedNode.node)
       THEN /\ json_data' = <<FinishStep("completed", Dict(<<>>))>>
            /\ executor_pc' = "act"
       ELSE /\ json_data' = json_data
            /\ executor_pc' = "llm"
    /\ retry_count' = 0
    /\ UNCHANGED <<plan_dag, data_collection, running_nodes, process, running, pc,
                   sched_locals, max_executor_number, agent_vars, max_iterations, current_inter,
                   final_output, conversation_history, code_snippets>>

\* One pass of "for retry in range(max_retry_number)": call_llm and json.loads.
ExecutorCallLLM ==
    /\ executor_pc = "llm"
    /\ FollowedRuns
    /\ \E response \in LLMResponses(FollowedNode) :
          IF response # <<>>
          THEN /\ json_data' = response
               /\ retry_count' = retry_count
               /\ executor_pc' = "act"
          ELSE /\ retry_count' = retry_count + 1
               /\ IF retry_count + 1 >= max_retry_number
                  THEN json_data' = << DecodeFailedFinishStep >> /\ executor_pc' = "act"
                  ELSE json_data' = json_data /\ executor_pc' = "llm"
    /\ UNCHANGED <<plan_dag, data_collection, running_nodes, process, running, pc,
                   sched_locals, max_executor_number, agent_vars, max_iterations, current_inter,
                   final_output, conversation_history, code_snippets>>

\* The rest of the turn: record the response, then finish_step or a tool call,
\* with the sql_query_tool follow-up of an action that starts with "plugin_".
\* An exception out of _execute_action leaves execute_step and _run_executor:
\* the process ends without a result.
ExecutorAct ==
    /\ executor_pc = "act"
    /\ FollowedRuns
    /\ LET data == json_data[1]
           recorded == Append(conversation_history, AssistantMessage(data))
       IN  IF data.action = <<"finish_step">>
           THEN /\ final_output' = <<[status |-> data.parameters.status,
                                      set_edge_status |-> data.parameters.set_edge_status]>>
                /\ conversation_history' = recorded
                /\ executor_pc' = "return"
                /\ UNCHANGED <<current_inter, code_snippets, process>>
           ELSE LET first == _execute_action(data.action, data.parameters, code_snippets)
                    observed == Append(recorded, ObservationMessage(first.observation))
                    sql_parameters ==
                        [snippet_id |-> SplitLast(first.observation, SnippetMarker)]
                    second == _execute_action(<<"sql_query_tool">>, sql_parameters,
                                              first.snippets)
                    sql_recorded ==
                        Append(observed,
                               AssistantMessage([action |-> <<"sql_query_tool">>,
                                                 parameters |-> sql_parameters]))
                IN  /\ final_output' = final_output
                    /\ IF first.raised
                       THEN /\ conversation_history' = recorded
                            /\ code_snippets' = first.snippets
                            /\ executor_pc' = "exited"
                            /\ process' = [process EXCEPT ![FollowedId].state = "dead"]
                            /\ current_inter' = current_inter
                       ELSE IF StartsWith(data.action, "plugin_") /\ second.raised
                       THEN /\ conversation_history' = sql_recorded
                            /\ code_snippets' = second.snippets
                            /\ executor_pc' = "exited"
                            /\ process' = [process EXCEPT ![FollowedId].state = "dead"]
                            /\ current_inter' = current_inter
                       ELSE /\ IF StartsWith(data.action, "plugin_")
                               THEN /\ conversation_history' =
                                           Append(sql_recorded,
                                                  ObservationMessage(second.observation))
                                    /\ code_snippets' = second.snippets
                               ELSE /\ conversation_history' = observed
                                    /\ code_snippets' = first.snippets
                            /\ current_inter' = current_inter + 1
                            /\ executor_pc' = "while"
                            /\ process' = process
    /\ UNCHANGED <<plan_dag, data_collection, running_nodes, running, pc,
                   sched_locals, max_executor_number, agent_vars, max_iterations, retry_count,
                   json_data>>

\* The while condition fails and step_result is None: the default conclusion.
ExecutorGiveUp ==
    /\ executor_pc = "while"
    /\ FollowedRuns
    /\ ~(current_inter < max_iterations)
    /\ final_output' = <<[status |-> "failed", set_edge_status |-> NoneMap]>>
    /\ executor_pc' = "return"
    /\ UNCHANGED <<plan_dag, data_collection, running_nodes, process, running, pc,
                   sched_locals, max_executor_number, agent_vars, max_iterations, current_inter,
                   retry_count, json_data, conversation_history, code_snippets>>

\* _run_executor stores what execute_step returned; the process then ends.
ExecutorReturn ==
    /\ executor_pc = "return"
    /\ FollowedRuns
    /\ data_collection' =
           add_data(data_collection, StepResultKey(FollowedId),
                    ExecutorResult(process[FollowedId].node_name, FollowedId,
                                   final_output[1]))
    /\ process' = [process EXCEPT ![FollowedId].state = "dead"]
    /\ executor_pc' = "exited"
    /\ UNCHANGED <<plan_dag, running_nodes, running, pc, sched_locals,
                   max_executor_number, agent_vars, max_iterations, current_inter, retry_count,
                   json_data, final_output, conversation_history, code_snippets>>

FollowedExecutorStep ==
    \/ ExecutorBegin
    \/ ExecutorTurn
    \/ ExecutorCallLLM
    \/ ExecutorAct
    \/ ExecutorGiveUp
    \/ ExecutorReturn

\* One session on the chain plan whose first executor is followed.
FollowedInit ==
    /\ plan_dag \in FollowedPlans
    /\ max_executor_number = 1
    /\ SchedulerInit
    /\ executor_pc = "new"
    /\ max_iterations \in 1..MaxIterations
    /\ ExecutorInit
    /\ AgentsIdle

FollowedNext == MonitorStep \/ FollowedExecutorStep

FollowedSpec == FollowedInit /\ [][FollowedNext]_vars

\* The values every variable takes.
TypeOK ==
    /\ plan_dag \in Plans \cup FollowedPlans \cup LinearChains \cup LoaderPlans \cup {WidePlan}
    /\ pc \in {"fetch", "reap", "sweep", "update_nodes", "add_nodes", "update_edges",
               "add_edges", "check", "cleanup", "ended", "crashed",
               "load_plandag", "load_nodes", "loaded", "load_error",
               "new", "add_data", "update_data_by_key"}
    /\ running \in BOOLEAN
    /\ is_end_triggered \in BOOLEAN
    /\ \A id \in DOMAIN process : process[id].state \in {"alive", "overdue", "dead", "released"}

(***************************************************************************)
(* Vocabulary of the properties.                                           *)
(***************************************************************************)
\* The persisted records, <<>> while update_data_by_key has the key deleted.
StoredNodeStatus ==
    IF HasKey(data_collection, "Node_Status") THEN data_collection["Node_Status"][1] ELSE <<>>
StoredEdgeStatus ==
    IF HasKey(data_collection, "Edge_Status") THEN data_collection["Edge_Status"][1] ELSE <<>>

\* The end of a monitor cycle: both records have just been persisted.
CycleEnd == pc = "check"

StatusOfEdge(edge_status, e) ==
    edge_status[CHOOSE i \in DOMAIN edge_status : edge_status[i].edge = e].status

InputStatuses(node, edge_status) ==
    {StatusOfEdge(edge_status, e) : e \in Range(node.input_edges)}

OutputStatuses(node, edge_status) ==
    {StatusOfEdge(edge_status, e) : e \in Range(node.output_edges)}

\* The monitoring thread takes a step of the reap loop for the executor at idx.
ReapStep == pc = "reap" /\ idx <= Len(running_nodes) /\ (idx' # idx \/ pc' # pc)

\* The monitoring thread examines the node at idx in the sweep.
SweepStep == pc = "sweep" /\ idx <= Len(all_node_status) /\ idx' # idx

\* The monitoring thread runs the dispatch loop.
DispatchStep == pc = "sweep" /\ pc' = "update_nodes"

\* The result the reap loop reads for the executor at idx, <<>> if none.
ExaminedResult ==
    IF process[running_nodes[idx].executor_id].state = "overdue"
    THEN << TimeoutResult >>
    ELSE IF HasKey(data_collection, StepResultKey(running_nodes[idx].executor_id))
    THEN <<data_collection[StepResultKey(running_nodes[idx].executor_id)][1].result>>
    ELSE <<>>

ExaminedNode == NodeNamed(all_node_status, running_nodes[idx].node_name)

(***************************************************************************)
(* C1.  Every change to an edge's status goes from pending to enabled or   *)
(* disabled, and an edge that is enabled or disabled is never assigned     *)
(* again, for any verdict map a worker returns.                            *)
(***************************************************************************)
EdgeChangeIsLegal(old, new) ==
    old # new => old = "pending" /\ new \in {"enabled", "disabled"}

C1_EdgesOnlyLeavePending ==
    [][\A i \in DOMAIN all_edge_status \cap DOMAIN all_edge_status' :
          EdgeChangeIsLegal(all_edge_status[i].status, all_edge_status'[i].status)]_vars

(***************************************************************************)
(* C2.  Every node other than start begins pending; a node's status only   *)
(* moves pending -> running -> (finished | failed) or pending -> skipped;  *)
(* a running node has an executor_id.                                      *)
(***************************************************************************)
NodeChangeIsLegal(old, new) ==
    old # new => \/ old = "pending" /\ new \in {"running", "skipped"}
                 \/ old = "running" /\ new \in {"finished", "failed"}

RunningHasExecutor(node_status) ==
    \A i \in DOMAIN node_status :
        node_status[i].status = "running" => node_status[i].executor_id # <<>>

C2_NodeLifecycle ==
    /\ \A i \in DOMAIN StoredNodeStatus :
          StoredNodeStatus[i].node # "start" => StoredNodeStatus[i].status = "pending"
    /\ [][\A i \in DOMAIN all_node_status \cap DOMAIN all_node_status' :
             NodeChangeIsLegal(all_node_status[i].status, all_node_status'[i].status)]_vars
    /\ [](RunningHasExecutor(all_node_status) /\ RunningHasExecutor(StoredNodeStatus))

\* A node has gone pending -> running -> failed and another pending -> skipped.
C2_Witness ==
    /\ \E i \in DOMAIN StoredNodeStatus :
          StoredNodeStatus[i].status = "failed" /\ StoredNodeStatus[i].executor_id # <<>>
    /\ \E i \in DOMAIN StoredNodeStatus : StoredNodeStatus[i].status = "skipped"

(***************************************************************************)
(* C3.  A worker is dispatched for a node only in a cycle where, when the  *)
(* sweep examined the node, none of its input edges was pending and at     *)
(* least one was enabled.                                                  *)
(***************************************************************************)
Selected(i) == i \in Range(nodes_to_run') /\ i \notin Range(nodes_to_run)

NewlyRunning(i) ==
    all_node_status'[i].status = "running" /\ all_node_status[i].status # "running"

C3_JoinReached ==
    \E i \in DOMAIN StoredNodeStatus :
        /\ StoredNodeStatus[i].status = "running"
        /\ ~IsEndName(StoredNodeStatus[i].node)
        /\ StoredEdgeStatus # <<>>
        /\ InputStatuses(StoredNodeStatus[i], StoredEdgeStatus) = {"enabled", "disabled"}

(***************************************************************************)
(* C4.  At the end of every monitor cycle every output edge of a finished  *)
(* node is enabled or disabled, whatever map the completed verdict carried.*)
(***************************************************************************)
C4_FinishedNodesDecideEdges ==
    CycleEnd =>
        \A i \in DOMAIN StoredNodeStatus :
            StoredNodeStatus[i].status = "finished" =>
                OutputStatuses(StoredNodeStatus[i], StoredEdgeStatus)
                    \subseteq {"enabled", "disabled"}

(***************************************************************************)
(* C5.  At the end of every monitor cycle every output edge of a failed or *)
(* skipped node is disabled, provided every completed verdict names only   *)
(* output edges of its own node.                                           *)
(***************************************************************************)
StoredVerdicts ==
    {data_collection[StepResultKey(id)][1] :
        id \in {x \in DOMAIN process : HasKey(data_collection, StepResultKey(x))}}

NamesOnlyOwnOutputs(verdict) ==
    \/ verdict.result.set_edge_status.null
    \/ \A k \in DOMAIN verdict.result.set_edge_status.items :
          verdict.result.set_edge_status.items[k][1]
              \in Range(PlanNodeNamed(verdict.node_name).output_edges)

CompletedVerdictsNameOwnOutputs ==
    \A verdict \in StoredVerdicts :
        verdict.result.status = "completed" => NamesOnlyOwnOutputs(verdict)

C5_FailedAndSkippedNodesDisableEdges ==
    CycleEnd /\ CompletedVerdictsNameOwnOutputs =>
        \A i \in DOMAIN StoredNodeStatus :
            StoredNodeStatus[i].status \in {"failed", "skipped"} =>
                OutputStatuses(StoredNodeStatus[i], StoredEdgeStatus) \subseteq {"disabled"}

\* A failed node and a skipped node, each with an output edge, at a cycle end
\* where another node's completed verdict has been applied.
C5_Witness ==
    /\ CycleEnd
    /\ CompletedVerdictsNameOwnOutputs
    /\ \E i \in DOMAIN StoredNodeStatus :
          /\ StoredNodeStatus[i].status = "failed"
          /\ StoredNodeStatus[i].output_edges # <<>>
    /\ \E i \in DOMAIN StoredNodeStatus :
          /\ StoredNodeStatus[i].status = "skipped"
          /\ StoredNodeStatus[i].output_edges # <<>>
    /\ \E verdict \in StoredVerdicts :
          /\ verdict.result.status = "completed"
          /\ verdict.result.set_edge_status.items # <<>>

(***************************************************************************)
(* C6.  The monitor loop halts after finitely many cycles, given that      *)
(* every worker process stops within the executor timeout.                 *)
(***************************************************************************)
C6_MonitorLoopHalts == <>(pc \in {"ended", "crashed"})

(***************************************************************************)
(* C7.  At the end of every monitor cycle at most max_executor_number      *)
(* nodes are running, plus at most one more for the end node; with a cap   *)
(* of 1 at most one node other than end is running at any time.            *)
(***************************************************************************)
RunningNodes(node_status) ==
    {i \in DOMAIN node_status : node_status[i].status = "running"}

NonEndRunningNodes(node_status) ==
    {i \in RunningNodes(node_status) : ~IsEndName(node_status[i].node)}

C7_RunningWithinCap ==
    /\ CycleEnd =>
          /\ Cardinality(NonEndRunningNodes(StoredNodeStatus)) <= max_executor_number
          /\ Cardinality(RunningNodes(StoredNodeStatus)) <= max_executor_number + 1
    /\ max_executor_number = 1 =>
          /\ Cardinality(NonEndRunningNodes(all_node_status)) <= 1
          /\ Cardinality(NonEndRunningNodes(StoredNodeStatus)) <= 1

\* With a cap of 1, one node is running and a triggerable node was left pending.
C7_Witness ==
    /\ CycleEnd
    /\ max_executor_number = 1
    /\ Cardinality(NonEndRunningNodes(StoredNodeStatus)) = 1
    /\ \E i \in DOMAIN StoredNodeStatus :
          /\ StoredNodeStatus[i].status = "pending"
          /\ ~IsEndName(StoredNodeStatus[i].node)
          /\ InputStatuses(StoredNodeStatus[i], StoredEdgeStatus) = {"enabled"}

(***************************************************************************)
(* C8.  A pending node is marked skipped only when every one of its input  *)
(* edges is disabled at that moment; a pending node whose input edges are  *)
(* all disabled when the sweep reaches it is marked skipped in that step;  *)
(* no worker is ever dispatched for a skipped node.                        *)
(***************************************************************************)
NeverDispatched(node) ==
    /\ node.executor_id = <<>>
    /\ \A id \in DOMAIN process : process[id].node_name # node.node

C8_SkippedIffAllInputsDisabled ==
    /\ [][/\ \A i \in DOMAIN all_node_status \cap DOMAIN all_node_status' :
                /\ all_node_status[i].status = "pending"
                       /\ all_node_status'[i].status = "skipped"
                   => InputStatuses(all_node_status[i], all_edge_status) = {"disabled"}
                /\ all_node_status[i].status = "skipped"
                   => all_node_status'[i].status = "skipped"
          /\ SweepStep /\ all_node_status[idx].status = "pending"
                /\ InputStatuses(all_node_status[idx], all_edge_status) = {"disabled"}
             => all_node_status'[idx].status = "skipped"]_vars
    /\ [](\A i \in DOMAIN all_node_status :
             all_node_status[i].status = "skipped" => NeverDispatched(all_node_status[i]))

\* The end node was skipped after both of its input edges had been disabled.
C8_Witness ==
    \E i \in DOMAIN StoredNodeStatus :
        /\ StoredNodeStatus[i].status = "skipped"
        /\ Len(StoredNodeStatus[i].input_edges) = 2
        /\ StoredEdgeStatus # <<>>
        /\ InputStatuses(StoredNodeStatus[i], StoredEdgeStatus) = {"disabled"}

(***************************************************************************)
(* C9.  When the reap loop reads a verdict whose status is not completed   *)
(* (a failed verdict, one without a set_edge_status dict, or the timeout   *)
(* result), the node becomes failed and every output edge of the node is   *)
(* disabled in that step, whatever the verdict's set_edge_status says.     *)
(***************************************************************************)
C9_FailedVerdictDisablesOutputs ==
    /\ [][ReapStep /\ ExaminedResult # <<>> /\ ExaminedResult[1].status # "completed" =>
             LET node == NodeNamed(all_node_status', running_nodes[idx].node_name)
             IN  /\ node.status = "failed"
                 /\ OutputStatuses(node, all_edge_status') \subseteq {"disabled"}]_vars
    /\ [](CycleEnd =>
             \A i \in DOMAIN StoredNodeStatus :
                 /\ StoredNodeStatus[i].executor_id # <<>>
                 /\ StoredNodeStatus[i].executor_id[1] \in Range(nodes_to_pop)
                 /\ StoredNodeStatus[i].result[1].status # "completed"
                 => StoredNodeStatus[i].status = "failed")

\* A failed node whose verdict asked for its output edge to be enabled.
C9_Witness ==
    \E i \in DOMAIN all_node_status :
        /\ all_node_status[i].status = "failed"
        /\ all_node_status[i].result # <<>>
        /\ \E e \in Range(all_node_status[i].output_edges) :
              /\ all_node_status[i].result[1].set_edge_status = Dict(<< <<e, "enabled">> >>)
              /\ StatusOfEdge(all_edge_status, e) = "disabled"

(***************************************************************************)
(* C10.  An executor process that is alive past the executor timeout when  *)
(* the reap loop examines it is terminated in that step; its node becomes  *)
(* failed and the node's output edges disabled; the executor is dropped    *)
(* from running_nodes when the reap loop of that cycle is done, so that    *)
(* at the end of the cycle it is not tracked and its node is failed.       *)
(***************************************************************************)
Tracked(executor_id) ==
    \E i \in DOMAIN running_nodes : running_nodes[i].executor_id = executor_id

TimedOutNodes(node_status) ==
    {i \in DOMAIN node_status : node_status[i].result = << TimeoutResult >>}

C10_TimeoutKillsAndFails ==
    /\ [][/\ ReapStep /\ process[running_nodes[idx].executor_id].state = "overdue" =>
                LET node == NodeNamed(all_node_status', running_nodes[idx].node_name)
                IN  /\ process'[running_nodes[idx].executor_id].state = "dead"
                    /\ node.status = "failed"
                    /\ node.result = << TimeoutResult >>
                    /\ OutputStatuses(node, all_edge_status') \subseteq {"disabled"}
                    /\ running_nodes[idx].executor_id \in Range(nodes_to_pop')
          /\ pc = "reap" /\ pc' = "sweep" =>
                \A executor_id \in Range(nodes_to_pop) : ~Tracked(executor_id)']_vars
    /\ [](CycleEnd =>
             \A i \in TimedOutNodes(StoredNodeStatus) :
                 /\ StoredNodeStatus[i].status = "failed"
                 /\ ~Tracked(StoredNodeStatus[i].executor_id[1]))

\* A cycle has ended with a node failed by the timeout although its executor
\* had stored a result.
C10_Witness ==
    /\ CycleEnd
    /\ \E i \in TimedOutNodes(StoredNodeStatus) :
          /\ StoredNodeStatus[i].status = "failed"
          /\ process[StoredNodeStatus[i].executor_id[1]].state = "released"

(***************************************************************************)
(* C11.  The monitor loop stops at the end of a cycle if and only if, in   *)
(* the tables just persisted, the end node is finished, or no edge is      *)
(* pending and no node is pending or running; otherwise it starts another  *)
(* cycle.  The loop's flag is cleared nowhere else.                        *)
(***************************************************************************)
EndFinished(node_status) ==
    \E i \in DOMAIN node_status :
        IsEndName(node_status[i].node) /\ node_status[i].status = "finished"

NothingLeft(node_status, edge_status) ==
    /\ \A i \in DOMAIN edge_status : edge_status[i].status # "pending"
    /\ \A i \in DOMAIN node_status : node_status[i].status \notin {"pending", "running"}

CheckStep == pc = "check" /\ pc' # pc

C11_StopsIffComplete ==
    [][/\ CheckStep =>
             IF EndFinished(StoredNodeStatus)
                   \/ NothingLeft(StoredNodeStatus, StoredEdgeStatus)
             THEN pc' = "cleanup" /\ running' = FALSE
             ELSE pc' = "fetch" /\ running' = TRUE
       /\ running # running' => pc = "check"]_vars

\* The loop has stopped although the end node never ran: nothing was left.
C11_Witness ==
    /\ pc = "cleanup"
    /\ ~EndFinished(StoredNodeStatus)
    /\ NothingLeft(StoredNodeStatus, StoredEdgeStatus)

(***************************************************************************)
(* C12.  When a completed verdict names an edge that is not in Edge_Status *)
(* the scheduler raises a hard error and the session aborts: the monitor   *)
(* loop stops and ScheduleTool.execute leaves its wait and returns.        *)
(***************************************************************************)
\* ValueError has been raised out of _monitoring_loop: its thread is gone.
HardErrorRaised == pc = "crashed"

\* execute waits in "while self.running: time.sleep(30)" and returns after it.
ExecuteReturns == ~running

C12_HardErrorAborts == HardErrorRaised ~> ExecuteReturns

(***************************************************************************)
(* C13.  update_by_key on an existing key is atomic for concurrent         *)
(* readers: a get_by_key on Node_Status or Edge_Status made at any moment  *)
(* (the UI's status read) returns the old or the new payload, never null.  *)
(***************************************************************************)
\* What a status read made in the current state gets from Memory.
get_realtime_status ==
    [node_status |-> get_data_by_key(data_collection, "Node_Status"),
     edge_status |-> get_data_by_key(data_collection, "Edge_Status")]

C13_ReadersNeverSeeNull ==
    /\ get_realtime_status.node_status # <<>>
    /\ get_realtime_status.edge_status # <<>>

(***************************************************************************)
(* C14.  In every reachable state the status of every edge of Edge_Status  *)
(* is pending, enabled or disabled, whatever values a worker puts in its   *)
(* set_edge_status map.                                                    *)
(***************************************************************************)
EdgeStatusValues == {"pending", "enabled", "disabled"}

C14_EdgeStatusDomain ==
    \A i \in DOMAIN StoredEdgeStatus : StoredEdgeStatus[i].status \in EdgeStatusValues

(***************************************************************************)
(* C15.  In a cycle where the sweep finds the end node triggerable, end is *)
(* selected whatever the number of executors tracked and selected, and is  *)
(* dispatched in that cycle; no other node is dispatched in that cycle:    *)
(* the nodes selected earlier in the sweep stay pending.                   *)
(***************************************************************************)
EndTriggerable(node, edge_status) ==
    /\ IsEndName(node.node)
    /\ node.status = "pending"
    /\ "enabled" \in InputStatuses(node, edge_status)

C15_EndHasPriority ==
    [][/\ SweepStep /\ EndTriggerable(all_node_status[idx], all_edge_status) =>
             /\ nodes_to_run' = Append(nodes_to_run, idx)
             /\ is_end_triggered'
       /\ pc = "sweep" /\ pc' = "sweep" /\ is_end_triggered => is_end_triggered'
       /\ DispatchStep /\ is_end_triggered =>
             \A i \in DOMAIN all_node_status :
                 IF IsEndName(all_node_status[i].node)
                 THEN /\ all_node_status'[i].status = "running"
                      /\ \E k \in DOMAIN running_nodes' :
                            running_nodes'[k].node_name = all_node_status[i].node
                 ELSE all_node_status'[i] = all_node_status[i]]_vars

\* end was selected with the cap already reached by a node selected earlier in
\* the sweep; end is running and that node is still pending.
C15_Witness ==
    /\ CycleEnd
    /\ is_end_triggered
    /\ Len(running_nodes) - 1 + Len(nodes_to_run) - 1 >= max_executor_number
    /\ \E i \in Range(nodes_to_run) : StoredNodeStatus[i].status = "pending"
    /\ \E i \in Range(nodes_to_run) :
          IsEndName(StoredNodeStatus[i].node) /\ StoredNodeStatus[i].status = "running"

(***************************************************************************)
(* C16.  At no time are two workers running concurrently such that the     *)
(* node of one is a direct predecessor of the node of the other (the       *)
(* source of one of its input edges), the end node included.               *)
(***************************************************************************)
\* The executors the scheduler tracks whose process has not stopped.
LiveWorkers ==
    {k \in DOMAIN running_nodes : IsAlive(running_nodes[k].executor_id)}

IsPredecessor(from_name, to_name) ==
    Range(PlanNodeNamed(from_name).output_edges)
        \cap Range(PlanNodeNamed(to_name).input_edges) # {}

C16_NoWorkerBesideItsPredecessor ==
    \A a, b \in LiveWorkers :
        ~IsPredecessor(running_nodes[a].node_name, running_nodes[b].node_name)

(***************************************************************************)
(* C17.  If the verdict of a worker is in Memory under its                 *)
(* {executor_id}_step_result key when the reap loop examines the worker,   *)
(* the scheduler applies that verdict, whether or not the process has      *)
(* exited; it is never replaced by the synthetic timeout failure.          *)
(***************************************************************************)
StoredVerdictOf(executor_id) ==
    get_data_by_key(data_collection, StepResultKey(executor_id))

C17_StoredVerdictIsApplied ==
    [][ReapStep /\ StoredVerdictOf(running_nodes[idx].executor_id) # <<>> =>
          LET verdict == StoredVerdictOf(running_nodes[idx].executor_id)[1]
              node == NodeNamed(all_node_status', running_nodes[idx].node_name)
          IN  /\ node.result = << verdict.result >>
              /\ node.status = NodeStatusFor(verdict.result)]_vars

(***************************************************************************)
(* C18.  If the LLM's response is not parseable JSON max_retry_number (3)  *)
(* times in a row within one turn, the worker executes no tool in that     *)
(* turn and returns a verdict with status failed; once the scheduler reaps *)
(* it, the node is failed and all its output edges are disabled.           *)
(***************************************************************************)
\* The turn in progress, or the last one, had max_retry_number decode failures.
DecodeFailed == retry_count >= max_retry_number

FollowedStoredNode == NodeNamed(StoredNodeStatus, process[FollowedId].node_name)

C18_DecodeFailureFailsTheStep ==
    /\ [][/\ executor_pc = "act" /\ DecodeFailed /\ executor_pc' # executor_pc =>
                /\ executor_pc' = "return"
                /\ final_output'[1].status = "failed"
                /\ conversation_history' =
                       Append(conversation_history, AssistantMessage(json_data[1]))
                /\ code_snippets' = code_snippets
          /\ ReapStep /\ running_nodes[idx].executor_id = FollowedId /\ DecodeFailed
                /\ StoredVerdictOf(FollowedId) # <<>> =>
                LET node == NodeNamed(all_node_status', running_nodes[idx].node_name)
                IN  /\ node.status = "failed"
                    /\ OutputStatuses(node, all_edge_status') \subseteq {"disabled"}]_vars
    /\ [](CycleEnd /\ DecodeFailed /\ FollowedId \in Range(nodes_to_pop) =>
             /\ FollowedStoredNode.status = "failed"
             /\ OutputStatuses(FollowedStoredNode, StoredEdgeStatus) \subseteq {"disabled"})

\* After a turn with a tool call, a turn of three undecodable responses; the
\* scheduler has reaped the verdict and stored the node as failed.
C18_Witness ==
    /\ CycleEnd
    /\ DecodeFailed
    /\ current_inter > 1
    /\ FollowedId \in Range(nodes_to_pop)
    /\ FollowedStoredNode.status = "failed"
    /\ OutputStatuses(FollowedStoredNode, StoredEdgeStatus) = {"disabled"}

(***************************************************************************)
(* C19.  With iteration cap N (executor.max_iterations), a worker whose    *)
(* LLM never returns finish_step performs exactly N turns before it gives  *)
(* up with a failed verdict, and a finish_step returned in a turn, the     *)
(* N-th included, is honoured as the worker's verdict.                     *)
(***************************************************************************)
\* The loop was left by its condition: the default conclusion is the verdict.
GaveUp ==
    /\ executor_pc \in {"return", "exited"}
    /\ final_output[1].set_edge_status = NoneMap

\* The turns completed without finish_step: current_inter starts at 1 and is
\* incremented at the end of each of them.
TurnsWithoutFinish == current_inter - 1

C19_ExactlyNTurns ==
    /\ [](GaveUp => TurnsWithoutFinish = max_iterations)
    /\ [][executor_pc = "act" /\ executor_pc' # executor_pc
             /\ json_data[1].action = <<"finish_step">> =>
                /\ executor_pc' = "return"
                /\ final_output'[1].status = json_data[1].parameters.status
                /\ final_output'[1].set_edge_status =
                       json_data[1].parameters.set_edge_status]_vars

(***************************************************************************)
(* C20.  When the action a worker chose is a plugin tool that succeeds     *)
(* with snippet id X, the audit log gets, in this order and before any     *)
(* further LLM turn: the plugin call, the observation "SQL query snippet   *)
(* stored with ID: X", a synthesized assistant message calling             *)
(* sql_query_tool with snippet_id = X, and the observation of the SQL      *)
(* result.                                                                 *)
(***************************************************************************)
\* The turn's tool call was recorded with the observation of a stored snippet.
PluginSucceeded ==
    /\ executor_pc = "act"
    /\ executor_pc' = "while"
    /\ conversation_history'[Len(conversation_history) + 2].content[1] = SnippetMarker

C20_PluginThenSqlQueryInOrder ==
    [][PluginSucceeded =>
          LET at == Len(conversation_history)
              X == Tail(conversation_history'[at + 2].content)
          IN  /\ Len(conversation_history') = at + 4
              /\ SubSeq(conversation_history', 1, at) = conversation_history
              /\ conversation_history'[at + 1] = AssistantMessage(json_data[1])
              /\ conversation_history'[at + 2] = ObservationMessage(<< SnippetMarker >> \o X)
              /\ conversation_history'[at + 3] =
                     AssistantMessage([action |-> <<"sql_query_tool">>,
                                       parameters |-> [snippet_id |-> X]])
              /\ conversation_history'[at + 4] =
                     ObservationMessage(<<"SQL result of ">> \o X)]_vars

(***************************************************************************)
(* C21.  The worker loop checks the success prefix of a plugin observation *)
(* before the deferred dispatch: when an action with the plugin prefix     *)
(* yields an error observation, no sql_query_tool call is issued with the  *)
(* error text as snippet_id.                                               *)
(***************************************************************************)
\* The turn's action had the plugin prefix and its observation is not that of
\* a stored snippet.
PluginFailed ==
    /\ executor_pc = "act"
    /\ executor_pc' = "while"
    /\ StartsWith(json_data[1].action, "plugin_")
    /\ conversation_history'[Len(conversation_history) + 2].content[1] # SnippetMarker

C21_NoSqlCallOnPluginError ==
    [][PluginFailed =>
          /\ Len(conversation_history') = Len(conversation_history) + 2
          /\ code_snippets' = code_snippets]_vars

(***************************************************************************)
(* C22.  A plugin tool invoked without one of its required parameters      *)
(* returns the "Missing required parameter" message as a value, without an *)
(* exception, and stores no snippet: the code-snippet store is unchanged.  *)
(***************************************************************************)
\* The turn's action resolves to the plugin tool and lacks a required parameter.
PluginCalledWithMissingParameter ==
    /\ executor_pc = "act"
    /\ executor_pc' # executor_pc
    /\ Lower(json_data[1].action) = <<"plugin_", "3_tool">>
    /\ ~(Range(required_params) \subseteq json_data[1].parameters.kwargs)

C22_MissingParameterStoresNothing ==
    [][PluginCalledWithMissingParameter =>
          LET observation == conversation_history'[Len(conversation_history) + 2]
          IN  /\ executor_pc' = "while"
              /\ observation.role = "user"
              /\ observation.content[1] = "Missing required parameter: "
              /\ observation.content[2] \in
                     Range(required_params) \ json_data[1].parameters.kwargs
              /\ code_snippets' = code_snippets]_vars

\* A call with a missing parameter was observed after a call that stored a
\* snippet: the store still holds that one snippet only.
C22_Witness ==
    /\ Cardinality(code_snippets) = 1
    /\ \E i \in DOMAIN conversation_history :
          /\ conversation_history[i].role = "user"
          /\ conversation_history[i].content = <<"Missing required parameter: ", "region">>
          /\ \E j \in 1..(i - 1) :
                /\ conversation_history[j].role = "user"
                /\ conversation_history[j].content[1] = SnippetMarker

(***************************************************************************)
(* C23.  The worker for the end node makes no LLM call and executes no     *)
(* tool, and returns a verdict with status completed and an empty          *)
(* set_edge_status.                                                        *)
(***************************************************************************)
\* The followed worker is the one of the end node.
EndWorker ==
    /\ FollowedId \in DOMAIN process
    /\ IsEndName(process[FollowedId].node_name)

\* The messages _record_observation appended after the two opening messages.
Observations ==
    {i \in DOMAIN conversation_history : i > 2 /\ conversation_history[i].role = "user"}

C23_EndWorkerShortcut ==
    /\ [](EndWorker => /\ executor_pc # "llm"
                       /\ Observations = {}
                       /\ code_snippets = {})
    /\ [](EndWorker /\ executor_pc \in {"return", "exited"} =>
             /\ final_output[1].status = "completed"
             /\ final_output[1].set_edge_status = Dict(<<>>))

(***************************************************************************)
(* C24.  For every linear chain plan start -> n1 -> ... -> nk -> end in    *)
(* which every worker returns a completed verdict that enables its single  *)
(* output edge, the loop terminates with the end node finished, every node *)
(* finished and every edge enabled.                                        *)
(***************************************************************************)
ChainInit ==
    /\ plan_dag \in LinearChains
    /\ max_executor_number \in 1..MaxExecutors
    /\ SchedulerInit
    /\ executor_pc = "idle"
    /\ max_iterations = MaxIterations
    /\ ExecutorInit
    /\ AgentsIdle

\* The monitoring thread keeps running, and so does every worker process:
\* a worker that can store its verdict or exit does so.
ChainSpec ==
    /\ ChainInit
    /\ [][Next]_vars
    /\ WF_vars(MonitorStep)
    /\ WF_vars(\E executor_id \in DOMAIN process : ExecutorStoreResult(executor_id))
    /\ WF_vars(\E executor_id \in DOMAIN process : ExecutorExit(executor_id))

\* finish_step with status completed that enables each output edge of the node.
EnablingVerdict(node) ==
    [status |-> "completed",
     set_edge_status |-> Dict([i \in DOMAIN node.output_edges |->
                                  <<node.output_edges[i], "enabled">>])]

\* Every worker so far returns the enabling verdict: none is overdue, none has
\* died without a verdict while the loop runs, and each stored verdict is the
\* enabling one.
WorkersEnable ==
    \A executor_id \in DOMAIN process :
       /\ process[executor_id].state # "overdue"
       /\ running /\ process[executor_id].state = "dead" =>
             StoredVerdictOf(executor_id) # <<>>
       /\ StoredVerdictOf(executor_id) # <<>> =>
             StoredVerdictOf(executor_id)[1].result =
                 EnablingVerdict(PlanNodeNamed(process[executor_id].node_name))

\* The loop has ended with every node finished and every edge enabled.
AllFinishedAndEnabled ==
    /\ ExecuteReturns
    /\ EndFinished(StoredNodeStatus)
    /\ StoredEdgeStatus # <<>>
    /\ \A i \in DOMAIN StoredNodeStatus : StoredNodeStatus[i].status = "finished"
    /\ \A i \in DOMAIN StoredEdgeStatus : StoredEdgeStatus[i].status = "enabled"

C24_ChainRunsToTheEnd == <>(~WorkersEnable \/ AllFinishedAndEnabled)

\* The chain of two steps has run to its end with enabling verdicts only.
C24_Witness ==
    /\ plan_dag = ChainPlan
    /\ WorkersEnable
    /\ AllFinishedAndEnabled
    /\ Len(process) = Len(plan_dag) - 1

(***************************************************************************)
(* C25.  In the chain start -> A -> B -> end, if A's verdict is completed  *)
(* with eA_B disabled, or A's verdict is failed, then B and end both       *)
(* become skipped, eB_E becomes disabled, no worker is ever dispatched for *)
(* B or end, and the loop terminates by stability within 5 cycles of       *)
(* reaping A's verdict: it does so in the cycle that reaps it.             *)
(***************************************************************************)
\* finish_step of A with status completed and {"eA_B": "disabled"}.
DisablingVerdict ==
    [status |-> "completed", set_edge_status |-> Dict(<< <<"eA_B", "disabled">> >>)]

\* The reap loop has recorded for A a failed verdict or the disabling one.
ABlocksTheChain(node_status) ==
    /\ plan_dag = ChainPlan
    /\ \E i \in DOMAIN node_status :
          /\ node_status[i].node = "A"
          /\ \/ node_status[i].status = "failed"
             \/ /\ node_status[i].status = "finished"
                /\ node_status[i].result = << DisablingVerdict >>

\* B and end are skipped and eB_E is disabled.
RestOfChainSkipped(node_status, edge_status) ==
    /\ NodeNamed(node_status, "B").status = "skipped"
    /\ NodeNamed(node_status, "end").status = "skipped"
    /\ StatusOfEdge(edge_status, "eB_E") = "disabled"

C25_BlockedChainStopsAtOnce ==
    /\ [](CycleEnd /\ ABlocksTheChain(all_node_status) =>
             /\ RestOfChainSkipped(all_node_status, all_edge_status)
             /\ RestOfChainSkipped(StoredNodeStatus, StoredEdgeStatus)
             /\ ~EndFinished(StoredNodeStatus)
             /\ NothingLeft(StoredNodeStatus, StoredEdgeStatus))
    /\ [][CheckStep /\ ABlocksTheChain(all_node_status) => ~running']_vars
    /\ [](ABlocksTheChain(all_node_status) \/ ABlocksTheChain(StoredNodeStatus) =>
             \A executor_id \in DOMAIN process :
                 process[executor_id].node_name \notin {"B", "end"})
    /\ (ABlocksTheChain(all_node_status) ~> ExecuteReturns)

\* The loop has ended after A's completed verdict disabled eA_B.
C25_Witness ==
    /\ pc = "ended"
    /\ ABlocksTheChain(StoredNodeStatus)
    /\ NodeNamed(StoredNodeStatus, "A").status = "finished"
    /\ RestOfChainSkipped(StoredNodeStatus, StoredEdgeStatus)
    /\ Len(process) = 1

(***************************************************************************)
(* C26.  Applying a completed verdict changes the status of exactly the    *)
(* edges named in its set_edge_status map and leaves every other edge      *)
(* unchanged; an empty map on a node without output edges changes nothing  *)
(* and raises no error.                                                    *)
(***************************************************************************)
\* The entries of a set_edge_status dict that name the edge (none for None).
EntriesFor(set_edge_status, edge_name) ==
    IF set_edge_status.null THEN {}
    ELSE {k \in DOMAIN set_edge_status.items : set_edge_status.items[k][1] = edge_name}

\* The reap loop applies a completed verdict to the node of the executor at idx.
AppliesCompletedVerdict ==
    /\ ReapStep
    /\ ExaminedResult # <<>>
    /\ NodeStatusFor(ExaminedResult[1]) = "finished"

C26_OnlyNamedEdgesChange ==
    [][AppliesCompletedVerdict =>
          LET set_edge_status == ExaminedResult[1].set_edge_status
          IN  /\ DOMAIN all_edge_status' = DOMAIN all_edge_status
              /\ \A i \in DOMAIN all_edge_status :
                    LET entries == EntriesFor(set_edge_status, all_edge_status[i].edge)
                    IN  IF entries = {}
                        THEN all_edge_status'[i] = all_edge_status[i]
                        ELSE /\ all_edge_status'[i].edge = all_edge_status[i].edge
                             /\ \E k \in entries :
                                   all_edge_status'[i].status = set_edge_status.items[k][2]
              /\ set_edge_status = Dict(<<>>) /\ ExaminedNode.output_edges = <<>> =>
                    /\ all_edge_status' = all_edge_status
                    /\ ~HardErrorRaised']_vars

\* A's completed verdict named eA_E only: eB_E is still pending.
C26_Witness ==
    /\ plan_dag = ForkPlan
    /\ \E i \in DOMAIN all_node_status :
          /\ all_node_status[i].node = "A"
          /\ all_node_status[i].status = "finished"
          /\ all_node_status[i].result[1].set_edge_status =
                 Dict(<< <<"eA_E", "enabled">> >>)
    /\ StatusOfEdge(all_edge_status, "eA_E") = "enabled"
    /\ StatusOfEdge(all_edge_status, "eB_E") = "pending"

(***************************************************************************)
(* C27.  During execution, only the scheduler's monitor loop writes the    *)
(* Node_Status and Edge_Status records, and a worker process writes only   *)
(* its own {executor_id}_step_result record, exactly once, after its loop  *)
(* has ended: worker steps leave Node_Status and Edge_Status unchanged.    *)
(***************************************************************************)
\* A step of the followed worker process (_run_executor).
WorkerStep == executor_vars' # executor_vars

\* The documents stored under a key, <<>> if there is none.
RecordsUnder(coll, key) == IF HasKey(coll, key) THEN coll[key] ELSE <<>>

CycleOrder ==
    {<<"fetch", "reap">>, <<"reap", "sweep">>, <<"reap", "crashed">>,
     <<"sweep", "update_nodes">>, <<"update_nodes", "add_nodes">>,
     <<"add_nodes", "update_edges">>, <<"update_edges", "add_edges">>,
     <<"add_edges", "check">>, <<"check", "fetch">>, <<"check", "cleanup">>,
     <<"cleanup", "ended">>}

\* The reap loop of this cycle has set the edge: it is named by the completed
\* verdict of a reaped executor, or it is an output edge of a node whose
\* reaped verdict is failed.
SetByThisReap(edge_name) ==
    \E executor_id \in Range(nodes_to_pop) :
        LET reaped == NodeNamed(all_node_status, process[executor_id].node_name)
        IN  \/ /\ reaped.status = "failed"
               /\ edge_name \in Range(reaped.output_edges)
            \/ /\ reaped.status = "finished"
               /\ EntriesFor(reaped.result[1].set_edge_status, edge_name) # {}

\* The node is pending, none of its input edges is pending any more, and one
\* of them has been set by the reap loop of this cycle.
SettledByThisReap(node) ==
    /\ node.status = "pending"
    /\ "pending" \notin InputStatuses(node, all_edge_status)
    /\ \E e \in Range(node.input_edges) : SetByThisReap(e)

\* The dispatch loop starts a process for the node at position i.
DispatchedNow(i) ==
    /\ all_node_status'[i].status = "running"
    /\ \E k \in DOMAIN running_nodes' \ DOMAIN running_nodes :
          /\ running_nodes'[k].node_name = all_node_status[i].node
          /\ process'[running_nodes'[k].executor_id].state = "alive"

\* Every node settled by this cycle's reap is selected by the sweep.
C28_SettledNodeDispatchedInCycle ==
    [][/\ pc' # pc => <<pc, pc'>> \in CycleOrder
       /\ SweepStep /\ SettledByThisReap(all_node_status[idx])
             /\ HasFreeSlot(running_nodes, nodes_to_run, max_executor_number) =>
             nodes_to_run' = Append(nodes_to_run, idx)
       /\ DispatchStep /\ ~is_end_triggered =>
             \A i \in Range(nodes_to_run) : DispatchedNow(i)]_vars

\* The node is dispatched when one of its input edges is enabled.
C28_TriggerableNodeDispatchedInCycle ==
    [][/\ pc' # pc => <<pc, pc'>> \in CycleOrder
       /\ SweepStep /\ SettledByThisReap(all_node_status[idx])
             /\ "enabled" \in InputStatuses(all_node_status[idx], all_edge_status)
             /\ HasFreeSlot(running_nodes, nodes_to_run, max_executor_number) =>
             nodes_to_run' = Append(nodes_to_run, idx)
       /\ DispatchStep /\ ~is_end_triggered =>
             \A i \in Range(nodes_to_run) : DispatchedNow(i)]_vars

\* B runs at the end of the cycle that reaped A's verdict enabling eA_B.
C28_Witness ==
    /\ CycleEnd
    /\ plan_dag = ChainPlan
    /\ \E executor_id \in Range(nodes_to_pop) : process[executor_id].node_name = "A"
    /\ StatusOfEdge(StoredEdgeStatus, "eA_B") = "enabled"
    /\ NodeNamed(StoredNodeStatus, "B").status = "running"
    /\ \E k \in DOMAIN running_nodes : running_nodes[k].node_name = "B"

(***************************************************************************)
(* IncidentTSGLoader._load_plandag alone, on the plan files of LoaderPlans, *)
(* in the empty Memory of a new session.                                   *)
(***************************************************************************)
LoaderInit ==
    /\ plan_dag \in LoaderPlans
    /\ data_collection = <<>>
    /\ max_executor_number = 1
    /\ running_nodes = <<>>
    /\ process = <<>>
    /\ running = FALSE
    /\ pc = "load_plandag"
    /\ all_node_status = <<>>
    /\ all_edge_status = <<>>
    /\ nodes_to_pop = <<>>
    /\ nodes_to_run = <<>>
    /\ is_end_triggered = FALSE
    /\ idx = 1
    /\ executor_pc = "idle"
    /\ max_iterations = MaxIterations
    /\ ExecutorInit
    /\ AgentsIdle

\* The edges are collected, the start node is found and Edge_Status is stored.
LoadEdges ==
    /\ pc = "load_plandag"
    /\ StartPosition(plan_dag) # 0
    /\ data_collection' = add_data(data_collection, "Edge_Status", LoadEdgeStatus(plan_dag))
    /\ pc' = "load_nodes"
    /\ UNCHANGED <<plan_dag, running_nodes, process, running, sched_locals,
                   max_executor_number, agent_vars, executor_vars>>

\* "if not start_node: raise ValueError": caught, an error text is returned.
LoadFails ==
    /\ pc = "load_plandag"
    /\ StartPosition(plan_dag) = 0
    /\ pc' = "load_error"
    /\ UNCHANGED <<plan_dag, data_collection, running_nodes, process, running,
                   sched_locals, max_executor_number, agent_vars, executor_vars>>

\* Node_Status is built from the plan and stored.
LoadNodes ==
    /\ pc = "load_nodes"
    /\ data_collection' = add_data(data_collection, "Node_Status", LoadNodeStatus(plan_dag))
    /\ pc' = "loaded"
    /\ UNCHANGED <<plan_dag, running_nodes, process, running, sched_locals,
                   max_executor_number, agent_vars, executor_vars>>

LoaderNext == LoadEdges \/ LoadFails \/ LoadNodes

LoaderSpec == LoaderInit /\ [][LoaderNext]_vars

(***************************************************************************)
(* C29.  After loading a PlanDAG that has a start node, Edge_Status holds  *)
(* exactly one entry per distinct edge name referenced in any node's       *)
(* input_edges or output_edges; the output edges of start are enabled and  *)
(* every other edge is pending; start is finished and every node without a *)
(* status in the plan is pending.                                          *)
(***************************************************************************)
\* The edge names the plan file refers to.
ReferencedEdges(plan_dag_nodes) ==
    UNION {Range(plan_dag_nodes[i].input_edges) \cup Range(plan_dag_nodes[i].output_edges) :
              i \in DOMAIN plan_dag_nodes}

\* The output edges of the node(s) named start.
StartOutputs(plan_dag_nodes) ==
    UNION {Range(plan_dag_nodes[i].output_edges) :
              i \in {j \in DOMAIN plan_dag_nodes : IsStartName(plan_dag_nodes[j].node)}}

C29_LoadedTablesMatchThePlan ==
    pc = "loaded" =>
        /\ {StoredEdgeStatus[i].edge : i \in DOMAIN StoredEdgeStatus}
               = ReferencedEdges(plan_dag)
        /\ \A i, j \in DOMAIN StoredEdgeStatus :
              StoredEdgeStatus[i].edge = StoredEdgeStatus[j].edge => i = j
        /\ \A i \in DOMAIN StoredEdgeStatus :
              StoredEdgeStatus[i].status =
                  IF StoredEdgeStatus[i].edge \in StartOutputs(plan_dag)
                  THEN "enabled" ELSE "pending"
        /\ DOMAIN StoredNodeStatus = DOMAIN plan_dag
        /\ \A i \in DOMAIN plan_dag :
              /\ StoredNodeStatus[i].node = plan_dag[i].node
              /\ IsStartName(plan_dag[i].node) => StoredNodeStatus[i].status = "finished"
              /\ ~IsStartName(plan_dag[i].node) /\ "status" \notin DOMAIN plan_dag[i] =>
                    StoredNodeStatus[i].status = "pending"

\* A plan that refers to an edge twice in one list and to one in an input list
\* only has been loaded: four edges, the two of Start enabled.
C29_Witness ==
    /\ pc = "loaded"
    /\ plan_dag[1].node = "Start"
    /\ Len(StoredEdgeStatus) = 4
    /\ Cardinality({i \in DOMAIN StoredEdgeStatus :
                       StoredEdgeStatus[i].status = "enabled"}) = 2
    /\ "e4" \in ReferencedEdges(plan_dag)

(***************************************************************************)
(* Memory alone: one client that calls add_data and update_data_by_key     *)
(* under two keys; pc is the call that returned last.                      *)
(***************************************************************************)
MemoryKeys == {"Node_Status", "Edge_Status"}

\* Payloads, told apart by their first element only.
MemoryData == {<<"v1">>, <<"v2">>}

MemoryInit ==
    /\ plan_dag = DirectPlan
    /\ data_collection = <<>>
    /\ max_executor_number = 1
    /\ running_nodes = <<>>
    /\ process = <<>>
    /\ running = FALSE
    /\ pc = "new"
    /\ all_node_status = <<>>
    /\ all_edge_status = <<>>
    /\ nodes_to_pop = <<>>
    /\ nodes_to_run = <<>>
    /\ is_end_triggered = FALSE
    /\ idx = 1
    /\ executor_pc = "idle"
    /\ max_iterations = MaxIterations
    /\ ExecutorInit
    /\ AgentsIdle

\* add_data(data, ..., metadata={"key": key}) returns.
AddData(key, data) ==
    /\ Len(RecordsUnder(data_collection, key)) < MaxRecords
    /\ data_collection' = add_data(data_collection, key, data)
    /\ pc' = "add_data"
    /\ UNCHANGED <<plan_dag, running_nodes, process, running, sched_locals,
                   max_executor_number, agent_vars, executor_vars>>

\* update_data_by_key(key, data) returns.
UpdateDataByKey(key, data) ==
    /\ data_collection' = update_data_by_key(data_collection, key, data)
    /\ pc' = "update_data_by_key"
    /\ UNCHANGED <<plan_dag, running_nodes, process, running, sched_locals,
                   max_executor_number, agent_vars, executor_vars>>

MemoryNext ==
    \/ \E key \in MemoryKeys, data \in MemoryData : AddData(key, data)
    \/ \E key \in MemoryKeys, data \in MemoryData : UpdateDataByKey(key, data)

MemorySpec == MemoryInit /\ [][MemoryNext]_vars

(***************************************************************************)
(* C30.  After update_by_key(k, v) completes, get_by_key(k) returns v      *)
(* until the next write under k, whatever records with key k existed       *)
(* before the update (none, one, or several created by add_data with the   *)
(* same metadata.key).                                                     *)
(***************************************************************************)
\* The call that returns in this step is a write under the key.
WritesUnder(key) ==
    \E data \in MemoryData :
        data_collection' \in {add_data(data_collection, key, data),
                              update_data_by_key(data_collection, key, data)}

C30_UpdateThenGetReturnsTheData ==
    [][\A key \in MemoryKeys :
          /\ \A data \in MemoryData :
                /\ pc' = "update_data_by_key"
                /\ data_collection' = update_data_by_key(data_collection, key, data)
                => /\ get_data_by_key(data_collection', key) = << data >>
                   /\ Len(data_collection'[key]) = 1
          /\ ~WritesUnder(key) =>
                get_data_by_key(data_collection', key)
                    = get_data_by_key(data_collection, key)]_vars

\* update_data_by_key has just replaced the documents under Node_Status by v2
\* while Edge_Status holds several documents that add_data created.
C30_Witness ==
    /\ pc = "update_data_by_key"
    /\ RecordsUnder(data_collection, "Node_Status") = << <<"v2">> >>
    /\ Len(RecordsUnder(data_collection, "Edge_Status")) = MaxRecords
    /\ get_data_by_key(data_collection, "Edge_Status") = << <<"v1">> >>

(***************************************************************************)
(* C31.  In the worker loop, an action that matches no registered tool,    *)
(* and a tool whose execution raises, both produce an error string that is *)
(* recorded as a normal observation; no exception reaches the worker loop  *)
(* and the loop goes on to its next turn.                                  *)
(***************************************************************************)
\* The action of the turn is none of self.tools, in any case of letters.
NoToolMatches == \A t \in Tools : Lower(t) # Lower(json_data[1].action)

\* The action of the turn is memory_tool and its execute raises TypeError.
ToolRaises ==
    /\ Lower(json_data[1].action) = <<"memory_tool">>
    /\ "action" \notin json_data[1].parameters.kwargs

C31_ToolErrorsAreObservations ==
    [][executor_pc = "act" /\ executor_pc' # executor_pc
          /\ (NoToolMatches \/ ToolRaises) =>
          LET observation == conversation_history'[Len(conversation_history) + 2]
          IN  /\ executor_pc' = "while"
              /\ current_inter' = current_inter + 1
              /\ IsAlive(FollowedId)'
              /\ Len(conversation_history') = Len(conversation_history) + 2
              /\ observation.role = "user"
              /\ observation.content[1] =
                     IF NoToolMatches THEN "Error: Tool not found: "
                     ELSE "Error executing "
              /\ code_snippets' = code_snippets]_vars

\* Both errors have been observed, each followed by the next loop test.
C31_Witness ==
    /\ executor_pc = "while"
    /\ current_inter = 3
    /\ \E i \in DOMAIN conversation_history :
          /\ conversation_history[i].role = "user"
          /\ conversation_history[i].content[1] = "Error: Tool not found: "
    /\ \E i \in DOMAIN conversation_history :
          /\ conversation_history[i].role = "user"
          /\ conversation_history[i].content[1] = "Error executing "

(***************************************************************************)
(* CodeInterpreter.execute: the generate-and-execute attempts.  Texts are  *)
(* sequences of tokens; "\n" is the whitespace str.strip() removes and     *)
(* "[fence]" is the code fence of three backquotes.                        *)
(***************************************************************************)
\* Largest configured tools.code_interpreter.max_attempts explored.
MaxAttempts == 3

\* str.strip()
RECURSIVE LStrip(_)
LStrip(text) ==
    IF text # <<>> /\ Head(text) = "\n" THEN LStrip(Tail(text)) ELSE text

RECURSIVE RStrip(_)
RStrip(text) ==
    IF text # <<>> /\ text[Len(text)] = "\n"
    THEN RStrip(SubSeq(text, 1, Len(text) - 1))
    ELSE text

Strip(text) == RStrip(LStrip(text))

\* What CodeGeneratorAgent.generate_code can return as "code" (already stripped).
Codes == {<<"print(42)">>, <<"print()">>, <<"pass">>, <<"df['x']">>, <<"undefined_name">>,
          <<"1/0">>}

\* _execute_code: (stdout, None) when exec returns, (None, "Type: msg\n\ntraceback")
\* when it raises an Exception.  None is <<>>, a text t is << t >>.
_execute_code(generated) ==
    IF generated = <<"print(42)">>
    THEN [result |-> << <<"42", "\n">> >>, error |-> <<>>]
    ELSE IF generated = <<"print()">>
    THEN [result |-> << <<"\n">> >>, error |-> <<>>]
    ELSE IF generated = <<"pass">>
    THEN [result |-> << <<>> >>, error |-> <<>>]
    ELSE IF generated = <<"df['x']">>
    THEN [result |-> <<>>, error |-> << <<"KeyError: 'x'", "\n", "\n", "Traceback", "\n">> >>]
    ELSE IF generated = <<"1/0">>
    THEN [result |-> <<>>,
          error |-> << <<"ZeroDivisionError: division by zero", "\n", "\n", "Traceback", "\n">> >>]
    ELSE [result |-> <<>>,
          error |-> << <<"NameError: undefined_name", "\n", "\n", "Traceback", "\n">> >>]

\* _format_success_response(code, result), include_code False.
_format_success_response(generated, result) ==
    <<"Code executed successfully:", "\n", "[fence]", "\n">>
        \o (IF Strip(result) # <<>> THEN Strip(result) ELSE <<"[No output]">>)
        \o <<"\n", "[fence]">>

\* _format_error_response(code, error, attempts)
_format_error_response(generated, error, attempts) ==
    <<"Failed to execute code after ", ToString(attempts), " attempts.", "\n", "\n",
      "Last code attempted:", "\n", "[fence]python", "\n">>
        \o Strip(generated)
        \o <<"\n", "[fence]", "\n", "\n", "Error:", "\n", "[fence]", "\n">>
        \o Strip(error)
        \o <<"\n", "[fence]", "\n", "\n",
             "Please try again with a more specific task description or simpler requirements.">>

\* Mutant: the retry is asked for without the error of the previous attempt.
CodeArgs_NoError(attempt_number, previous, error) ==
    [attempt_number |-> attempt_number, previous_code |-> previous, error |-> <<>>]

\* code_args of one attempt; "error" is only set "if last_error".
CodeArgs(attempt_number, previous, error) ==
    [attempt_number |-> attempt_number, previous_code |-> previous,
     error |-> IF error # <<>> /\ error[1] # <<>> THEN error ELSE <<>>]

\* execute has been called; the input data is loaded.
CodeInterpreterInit ==
    /\ plan_dag = DirectPlan
    /\ data_collection = <<>>
    /\ max_executor_number = 1
    /\ running_nodes = <<>>
    /\ process = <<>>
    /\ running = FALSE
    /\ pc = "new"
    /\ all_node_status = <<>>
    /\ all_edge_status = <<>>
    /\ nodes_to_pop = <<>>
    /\ nodes_to_run = <<>>
    /\ is_end_triggered = FALSE
    /\ idx = 1
    /\ executor_pc = "idle"
    /\ max_iterations = MaxIterations
    /\ ExecutorInit
    /\ interpreter_pc = "while"
    /\ max_attempts \in 1..MaxAttempts
    /\ attempt = 0
    /\ last_error = <<>>
    /\ previous_code = <<>>
    /\ code = <<>>
    /\ code_args = <<>>
    /\ returned = <<>>
    /\ supervisor_pc = "idle"
    /\ step = 0
    /\ calls = 0

\* "while attempt < self.max_attempts": attempt += 1 and the code is generated.
InterpreterGenerate(generated) ==
    /\ interpreter_pc = "while"
    /\ attempt < max_attempts
    /\ attempt' = attempt + 1
    /\ code_args' = CodeArgs(attempt + 1, previous_code, last_error)
    /\ code' = << generated >>
    /\ previous_code' = << generated >>
    /\ interpreter_pc' = "execute"
    /\ UNCHANGED <<plan_dag, data_collection, running_nodes, process, running, pc,
                   sched_locals, max_executor_number, executor_vars, supervisor_vars,
                   max_attempts, last_error, returned>>

\* The code is executed: the output is returned, or the error is kept for a retry.
InterpreterExecute ==
    /\ interpreter_pc = "execute"
    /\ LET executed == _execute_code(code[1])
       IN  IF executed.error = <<>> \/ executed.error[1] = <<>>
           THEN /\ returned' = <<_format_success_response(code[1], executed.result[1])>>
                /\ interpreter_pc' = "returned"
                /\ last_error' = last_error
           ELSE /\ last_error' = executed.error
                /\ interpreter_pc' = "while"
                /\ returned' = returned
    /\ UNCHANGED <<plan_dag, data_collection, running_nodes, process, running, pc,
                   sched_locals, max_executor_number, executor_vars, supervisor_vars,
                   max_attempts, attempt, previous_code, code, code_args>>

\* The while condition fails: all attempts failed.
InterpreterFail ==
    /\ interpreter_pc = "while"
    /\ ~(attempt < max_attempts)
    /\ returned' = <<_format_error_response(code[1], last_error[1], attempt)>>
    /\ interpreter_pc' = "returned"
    /\ UNCHANGED <<plan_dag, data_collection, running_nodes, process, running, pc,
                   sched_locals, max_executor_number, executor_vars, supervisor_vars,
                   max_attempts, attempt, last_error, previous_code, code, code_args>>

CodeInterpreterNext ==
    \/ \E generated \in Codes : InterpreterGenerate(generated)
    \/ InterpreterExecute
    \/ InterpreterFail

CodeInterpreterSpec == CodeInterpreterInit /\ [][CodeInterpreterNext]_vars

(***************************************************************************)
(* C32.  The code interpreter makes at most max_attempts generate-and-     *)
(* execute attempts, stops at the first attempt that executes without      *)
(* error and returns its output, passes the previous code and error to     *)
(* every retry, and after max_attempts failures returns an error message   *)
(* that carries the last code and the last error.                          *)
(***************************************************************************)
\* part occurs in text as a run of consecutive tokens.
Carries(text, part) ==
    \E i \in 0..(Len(text) - Len(part)) : SubSeq(text, i + 1, i + Len(part)) = part

\* What running the current code prints, and the error it ends with.
Printed == _execute_code(code[1]).result
Raised == _execute_code(code[1]).error

C32_AttemptsOfTheCodeInterpreter ==
    [][/\ attempt' <= max_attempts
       /\ attempt' # attempt =>
             /\ attempt' = attempt + 1
             /\ returned = <<>>
             /\ attempt >= 1 =>
                   /\ Raised # <<>>
                   /\ code_args'.previous_code = code
                   /\ code_args'.error = Raised
       /\ interpreter_pc = "execute" /\ Raised = <<>> =>
             /\ interpreter_pc' = "returned"
             /\ returned'[1][1] = "Code executed successfully:"
             /\ Carries(returned'[1], IF Strip(Printed[1]) = <<>> THEN <<"[No output]">>
                                      ELSE Strip(Printed[1]))
       /\ interpreter_pc = "execute" /\ Raised # <<>> =>
             /\ interpreter_pc' = "while"
             /\ returned' = <<>>
       /\ interpreter_pc = "while" /\ interpreter_pc' = "returned" =>
             /\ attempt = max_attempts
             /\ Raised # <<>>
             /\ returned'[1][1] = "Failed to execute code after "
             /\ Carries(returned'[1], code[1])
             /\ Carries(returned'[1], Strip(Raised[1]))]_vars

\* Every attempt failed, the retries as well, and the error message is returned.
C32_Witness ==
    /\ interpreter_pc = "returned"
    /\ attempt = max_attempts
    /\ attempt >= 2
    /\ returned[1][1] = "Failed to execute code after "
    /\ code_args.error # <<>>

(***************************************************************************)
(* C33.  The context assembled for a dispatched node N contains a section  *)
(* for a node M if and only if M has status finished and M is a            *)
(* predecessor of N in the DAG.                                            *)
(***************************************************************************)
\* _get_node_context_info: the names of the nodes that get a "### M Context"
\* section, the finished nodes listed before the current node in node_status.
_get_node_context_info(node, node_status) ==
    LET current == CHOOSE i \in DOMAIN node_status : node_status[i].node = node.node
        target_nodes == {node_status[i].node : i \in
                            {j \in 1..(current - 1) : node_status[j].status = "finished"}}
    IN  SelectSeq([i \in DOMAIN node_status |-> node_status[i].node],
                  LAMBDA name : name \in target_nodes)

\* The nodes from which a path of at most depth edges of the plan leads to name.
RECURSIVE PredecessorsWithin(_, _)
PredecessorsWithin(name, depth) ==
    IF depth = 0 THEN {}
    ELSE LET direct == {n.node : n \in {m \in Range(plan_dag) : IsPredecessor(m.node, name)}}
         IN  direct \cup UNION {PredecessorsWithin(d, depth - 1) : d \in direct}

Predecessors(name) == PredecessorsWithin(name, Len(plan_dag))

FinishedNames(node_status) ==
    {node_status[i].node : i \in {j \in DOMAIN node_status : node_status[j].status = "finished"}}

C33_ContextIsTheFinishedPredecessors ==
    [][DispatchStep =>
          \A i \in Range(Launched) :
              Range(_get_node_context_info(all_node_status[i], all_node_status))
                  = FinishedNames(all_node_status) \cap Predecessors(all_node_status[i].node)]_vars

(***************************************************************************)
(* C34.  Every dispatched worker is eventually reaped: a worker process    *)
(* that exits without writing a verdict (for example it crashes while      *)
(* initialising) has its node leave the running status and its concurrency *)
(* slot freed within finitely many cycles.                                 *)
(***************************************************************************)
\* The worker process has exited, no verdict is stored under its key, and the
\* scheduler still tracks it.
DiedWithoutVerdict(executor_id) ==
    /\ executor_id \in DOMAIN process
    /\ process[executor_id].state = "dead"
    /\ ~HasKey(data_collection, StepResultKey(executor_id))
    /\ Tracked(executor_id)

\* The slot of the worker is free and its node is no longer running.
Reaped(executor_id) ==
    /\ executor_id \in DOMAIN process
    /\ ~Tracked(executor_id)
    /\ \E i \in DOMAIN StoredNodeStatus :
          /\ StoredNodeStatus[i].node = process[executor_id].node_name
          /\ StoredNodeStatus[i].status # "running"

C34_SilentWorkerIsReaped ==
    \A executor_id \in 1..Len(ChainPlan) :
        DiedWithoutVerdict(executor_id) ~> Reaped(executor_id)

(***************************************************************************)
(* C35.  Assuming every worker eventually delivers a verdict, every node   *)
(* that becomes triggerable is eventually dispatched: a triggerable node   *)
(* deferred by the concurrency cap or by the end-node priority rule keeps  *)
(* status pending and gets a worker in a later cycle before the loop       *)
(* terminates.                                                             *)
(***************************************************************************)
\* Three steps are triggerable at once and the concurrency cap is 1.
WideInit ==
    /\ plan_dag = WidePlan
    /\ max_executor_number = 1
    /\ SchedulerInit
    /\ executor_pc = "idle"
    /\ max_iterations = MaxIterations
    /\ ExecutorInit
    /\ AgentsIdle

WideSpec == WideInit /\ [][Next]_vars

\* The node is pending in Node_Status and its input edges make it triggerable.
LeftTriggerable(name) ==
    \E i \in DOMAIN StoredNodeStatus :
        /\ StoredNodeStatus[i].node = name
        /\ IsCandidate(StoredNodeStatus[i])
        /\ _should_trigger_node(StoredNodeStatus[i], StoredEdgeStatus)[1]

\* A worker process has been started for the node.
HasWorker(name) == \E executor_id \in DOMAIN process : process[executor_id].node_name = name

\* When the loop has terminated and every worker has delivered the verdict that
\* enables its output edges, no triggerable node is left without a worker.
C35_TriggerableNodeGetsAWorker ==
    pc = "ended" /\ WorkersEnable =>
        \A name \in {"A", "B", "C", "end"} : LeftTriggerable(name) => HasWorker(name)

(***************************************************************************)
(* C36.  When the monitor loop has terminated and cleaned up its workers,  *)
(* the Node_Status record in Memory contains no node with status running.  *)
(***************************************************************************)
\* Checked for the sessions in which every worker that the loop waited for
\* delivered the verdict that enables its output edges.
C36_NoRunningNodeAfterCleanUp ==
    pc = "ended" /\ WorkersEnable => RunningNodes(StoredNodeStatus) = {}

(***************************************************************************)
(* C37.  When the monitor cycle raises during the reap step (a verdict     *)
(* names an unknown edge), nothing of that cycle is persisted: Node_Status *)
(* and Edge_Status in Memory keep the values written at the end of the     *)
(* previous cycle, with no partial application of the entries of the map   *)
(* that came before the unknown edge.                                      *)
(***************************************************************************)
\* The map has an entry for an edge that is not in Edge_Status.
NamesUnknownEdge(set_edge_status) ==
    /\ ~set_edge_status.null
    /\ \E k \in DOMAIN set_edge_status.items :
          set_edge_status.items[k][1] \notin EdgeNames(all_edge_status)

C37_RaiseInReapPersistsNothing ==
    [][/\ AppliesCompletedVerdict /\ NamesUnknownEdge(ExaminedResult[1].set_edge_status) =>
             /\ pc' = "crashed"
             /\ StoredNodeStatus' = StoredNodeStatus
             /\ StoredEdgeStatus' = StoredEdgeStatus
       /\ pc = "crashed" =>
             /\ pc' = "crashed"
             /\ StoredNodeStatus' = StoredNodeStatus
             /\ StoredEdgeStatus' = StoredEdgeStatus]_vars

\* The cycle has raised after the first entry of the map was applied to the
\* edge list of the loop: the edge is enabled there and still pending in Memory.
C37_Witness ==
    /\ pc = "crashed"
    /\ \E i \in DOMAIN all_edge_status :
          /\ all_edge_status[i].status = "enabled"
          /\ StoredEdgeStatus[i].status = "pending"
    /\ \E i \in DOMAIN all_node_status :
          /\ all_node_status[i].status = "finished"
          /\ StoredNodeStatus[i].status = "running"

(***************************************************************************)
(* C38.  Each node is dispatched at most once in a session: at most one    *)
(* worker process is ever started for a node and at most one executor_id   *)
(* is ever assigned to it.                                                 *)
(***************************************************************************)
\* The worker processes started so far for the node.
WorkersOf(name) == {executor_id \in DOMAIN process : process[executor_id].node_name = name}

C38_NodeDispatchedAtMostOnce ==
    /\ \A n \in Range(plan_dag) : Cardinality(WorkersOf(n.node)) <= 1
    /\ \A i \in DOMAIN all_node_status :
          all_node_status[i].executor_id # <<>> =>
              WorkersOf(all_node_status[i].node) = {all_node_status[i].executor_id[1]}
    /\ \A i \in DOMAIN StoredNodeStatus :
          StoredNodeStatus[i].executor_id # <<>> =>
              WorkersOf(StoredNodeStatus[i].node) = {StoredNodeStatus[i].executor_id[1]}

\* Every step of the plan has had its worker, and the session is over.
C38_Witness ==
    /\ pc = "ended"
    /\ \A n \in Range(plan_dag) : ~IsStartName(n.node) => Cardinality(WorkersOf(n.node)) = 1

(***************************************************************************)
(* C39.  At the end of every monitor cycle, the scheduler's tracked        *)
(* workers (running_nodes) correspond one to one with the nodes whose      *)
(* persisted status is running: each tracked executor_id is the            *)
(* executor_id of exactly one running node, and every running node is      *)
(* tracked.                                                                *)
(***************************************************************************)
\* The running nodes of Node_Status that carry the executor id.
RunningNodesOf(executor_id) ==
    {i \in RunningNodes(StoredNodeStatus) : StoredNodeStatus[i].executor_id = << executor_id >>}

C39_TrackedWorkersAreTheRunningNodes ==
    CycleEnd =>
        /\ \A k \in DOMAIN running_nodes :
              /\ Cardinality(RunningNodesOf(running_nodes[k].executor_id)) = 1
              /\ \A i \in RunningNodesOf(running_nodes[k].executor_id) :
                    StoredNodeStatus[i].node = running_nodes[k].node_name
        /\ \A k, l \in DOMAIN running_nodes :
              running_nodes[k].executor_id = running_nodes[l].executor_id => k = l
        /\ \A i \in RunningNodes(StoredNodeStatus) :
              /\ StoredNodeStatus[i].executor_id # <<>>
              /\ Tracked(StoredNodeStatus[i].executor_id[1])

\* A cycle ends with two workers tracked, after an earlier worker was reaped.
C39_Witness ==
    /\ CycleEnd
    /\ Len(running_nodes) = 2
    /\ \E i \in DOMAIN StoredNodeStatus :
          /\ StoredNodeStatus[i].status \in {"finished", "failed"}
          /\ StoredNodeStatus[i].executor_id # <<>>

(***************************************************************************)
(* Scheduler._react_loop: the supervisor's loop of steps, each with its    *)
(* retry loop around call_llm and json.loads.                              *)
(***************************************************************************)
\* Largest configured max_steps explored.
MaxSteps == 3

\* config.get("single_step_retry_limit", 3)
single_step_retry_limit == 3

\* The actions a parsed response of the supervisor can name; "" is no action.
SupervisorActions == {<<"">>, <<"incident_tsg_loader">>, <<"schedule_tool">>, <<"finish">>,
                      <<"Finish">>}

\* Scheduler._execute_action: the observation of the action.
Scheduler_execute_action(action) ==
    IF action = <<"">>
    THEN <<"No action specified. Please provide a valid action to execute.">>
    ELSE IF Lower(action) = <<"finish">>
    THEN <<"Troubleshooting session completed.">>
    ELSE <<"Result of ">> \o Lower(action)

\* start() has registered the first messages and calls _react_loop.
SupervisorInit ==
    /\ plan_dag = DirectPlan
    /\ data_collection = <<>>
    /\ max_executor_number = 1
    /\ running_nodes = <<>>
    /\ process = <<>>
    /\ running = FALSE
    /\ pc = "new"
    /\ all_node_status = <<>>
    /\ all_edge_status = <<>>
    /\ nodes_to_pop = <<>>
    /\ nodes_to_run = <<>>
    /\ is_end_triggered = FALSE
    /\ idx = 1
    /\ executor_pc = "idle"
    /\ max_iterations = MaxIterations
    /\ ExecutorInit
    /\ interpreter_pc = "idle"
    /\ max_attempts = 3
    /\ last_error = <<>>
    /\ previous_code = <<>>
    /\ code = <<>>
    /\ code_args = <<>>
    /\ returned = <<>>
    /\ supervisor_pc = "while"
    /\ attempt = 1
    /\ step = 0
    /\ calls = 0

\* One turn of "while attempt < single_step_retry_limit": the response parses
\* (break) or an exception is caught (attempt += 1).
SupervisorCallLLM ==
    /\ supervisor_pc = "while"
    /\ attempt < single_step_retry_limit
    /\ calls' = calls + 1
    /\ \/ \E action \in SupervisorActions :
             /\ json_data' = <<[action |-> action]>>
             /\ supervisor_pc' = "act"
             /\ attempt' = attempt
       \/ /\ attempt' = attempt + 1
          /\ UNCHANGED <<json_data, supervisor_pc>>
    /\ UNCHANGED <<plan_dag, data_collection, running_nodes, process, running, pc,
                   sched_locals, max_executor_number, interpreter_vars, step,
                   executor_pc, max_iterations, current_inter, retry_count,
                   final_output, conversation_history, code_snippets>>

\* "if attempt >= single_step_retry_limit: raise RuntimeError".
SupervisorRaise ==
    /\ supervisor_pc = "while"
    /\ ~(attempt < single_step_retry_limit)
    /\ supervisor_pc' = "raised"
    /\ UNCHANGED <<plan_dag, data_collection, running_nodes, process, running, pc,
                   sched_locals, max_executor_number, interpreter_vars, step, calls,
                   attempt, executor_vars>>

\* The response and the observation are recorded; "finish" completes the
\* session, otherwise the for loop goes to its next step.
SupervisorAct ==
    /\ supervisor_pc = "act"
    /\ LET action == json_data[1].action
       IN  /\ conversation_history' =
                  conversation_history
                      \o << [role |-> "assistant", content |-> action],
                            ObservationMessage(Scheduler_execute_action(action)) >>
           /\ IF Lower(action) = <<"finish">>
              THEN /\ supervisor_pc' = "complete"
                   /\ UNCHANGED <<step, calls>>
              ELSE /\ step' = step + 1
                   /\ calls' = 0
                   /\ supervisor_pc' = IF step + 1 < MaxSteps THEN "while" ELSE "exhausted"
    /\ UNCHANGED <<plan_dag, data_collection, running_nodes, process, running, pc,
                   sched_locals, max_executor_number, interpreter_vars, attempt,
                   executor_pc, max_iterations, current_inter, retry_count, json_data,
                   final_output, code_snippets>>

SupervisorNext ==
    \/ SupervisorCallLLM
    \/ SupervisorRaise
    \/ SupervisorAct

SupervisorSpec == SupervisorInit /\ [][SupervisorNext]_vars

(***************************************************************************)
(* C40.  The supervisor's retry budget for malformed LLM responses is per  *)
(* step: every step of its ReAct loop may make up to                       *)
(* single_step_retry_limit attempts, independently of how many attempts    *)
(* failed in earlier steps.                                                *)
(***************************************************************************)
\* A step is given up only after all its attempts.  The budget is counted as
\* the code counts it in the first step: attempt starts at 1, so the first
\* step gets single_step_retry_limit - 1 calls of the LLM.
C40_RetryBudgetIsPerStep ==
    supervisor_pc = "raised" => calls >= single_step_retry_limit - 1

====
